---- MODULE Spec2Model ----
(***************************************************************************)
(* Model of the DAFT/AFT device pool (DevicesManager: reserve, release,    *)
(* exit-time release, blacklist filtering) and of the PC-device mode-entry *)
(* loop (PCDevice._enter_mode).                                            *)
(*                                                                         *)
(* The lock directory is modelled at the level the code uses it: a path    *)
(* per device identity that names an inode, and an flock() owner per       *)
(* inode.  os.open, fcntl.flock, file.close, os.path.isfile and os.unlink  *)
(* are separate system calls, so each is a separate step and steps of      *)
(* independent processes interleave.                                       *)
(***************************************************************************)
EXTENDS Integers, Sequences, FiniteSets, TLC

\* ------------------------------------------------------------------ bounds
NumDevs == 1
MaxTimeout == 15
MaxReserves == 1
MaxUnits == 2
MaxRuns == 2
NumChannels == 2
NumNets == 2
NumMachines == 2
MaxRetries == 2
NumEdisons == 3
MaxAttempts == 2
NumDuts == 1

\* ------------------------------------------------------- program constants
PollInterval == 10
CoreRetryAttempts == 8
HarnessRetryAttempts == 4
BootTimeout == 240
IpPollingInterval == 10

\* two independent processes share the lock directory and the blacklist file
Procs == {1, 2}
Devs == 1..NumDevs
Variants == {"core", "client"}
\* process 1 runs src/devicesmanager.py, the others src/client/devicesmanager.py;
\* _do_reserve and release are the same code in both
VariantOf(p) == IF p = 1 THEN "core" ELSE "client"
Machines == {"a", "b"}
TimeoutChoices == {0, MaxTimeout}
InodeIds == 1..(NumDevs + Cardinality(Procs) * (MaxReserves + 1))

\* topology: device d is named d, has identity d; the first two are model "a"
ModelOf(d) == IF d <= 2 THEN "a" ELSE "b"
DeviceConfigs == [d \in Devs |-> d]

NoRequest == [kind |-> "none", arg |-> 0]
Requests == [kind : {"model"}, arg : Machines] \cup [kind : {"name"}, arg : 0..NumDevs]

VARIABLES
    blacklistFile,   \* identities listed in config.DEVICE_BLACKLIST
    path,            \* path[d]: inode linked at LOCK_FILE/aft_<d>, 0 = no file
    lockOwner,       \* lockOwner[i]: process whose open file holds flock on inode i, 0 = none
    pc,              \* position of each process
    blRead,          \* self._device_blacklist (core: read in the constructor)
    lockfiles,       \* self._lockfiles: sequence of <<dev_id, inode of the open file>>
    atexitQ,         \* devices whose release is registered with atexit, in order
    exiting,         \* the interpreter is running its atexit handlers
    cands,           \* the devices list _do_reserve polls
    idx,             \* position in cands of the current attempt
    fd,              \* inode of the file opened for the current attempt, 0 = none
    relDev,          \* argument of the release call in progress, 0 = none
    elapsed,         \* time.time() - start
    timeout,         \* timeout argument of the call
    result,          \* outcome of the last reserve/release call
    ret,             \* device returned by the last successful reserve, 0 = none
    attempts,        \* history: lock attempts of the current reserve call
    sleeps,          \* history: poll sleeps of the current reserve call
    request,         \* history: the model or name the current call asked for
    relStale,        \* history: the release in progress found no entry in _lockfiles
    strand,          \* history: per identity, whether its holder died without release
    built,           \* built[p]: devices whose cutter and Device objects the reserve call constructed
    mVariant,        \* which PCDevice class enters the mode
    mKb,             \* self.kb_emulator is configured (testing-harness PCDevice)
    mPc,             \* position inside _enter_mode
    mAttempt,        \* iterations of the retry loop started so far
    mPower,          \* state of the cutter channel
    mProbes,         \* polls made by the identity wait in progress
    mIp,             \* ip_address returned by the identity wait, 0 = None
    mCycles,         \* history: completed power cycles
    mInjects,        \* history: keystroke sequences sent
    mWaits,          \* history: identity waits that returned
    mVerifies,       \* history: calls of _verify_mode
    mErrors,         \* history: exceptions logged and swallowed by the loop
    mOkAt,           \* history: attempt in which _verify_mode returned True, 0 = none
    mLogged,         \* history: the attempt that just ended wrote a warning or error to the log
    mKbWarnings,     \* history: warnings "No keyboard emulator defined for the device"
    cPlatform,       \* platform file: section name -> options
    cCatalog,        \* catalog file: section name -> options
    cTopology,       \* topology file: sequence of (section title, options)
    cResults,        \* history: outcome of every _construct_configs run so far
    tWire,           \* environment: power channel each network identity hangs on, 0 = none
    tSerWire,        \* environment: power channel each serial port hangs on, 0 = none
    tModel,          \* environment: model the MAC prefix table gives each identity, "" = none
    tPowered,        \* channels whose cutter is connected
    tNetConfigs,     \* self._network_configs
    tSerialPorts,    \* self._serial_ports
    tDevices,        \* self._devices
    tNext,           \* position of the loop over the cutters
    tPc,             \* position inside build_topology
    tSections,       \* section names of the configuration object
    tDryrun,         \* self._dryrun
    tFile,           \* /etc/aft/devices/topology.cfg: absent, old, or written with sections
    blDuring,        \* history: <<p, d>> when d was blacklisted while p was polling for it
    bPc,             \* position of build_topology before its loop over the cutters
    bLog,            \* history: what build_topology has done so far, in order
    bFinder,         \* bFinder[c]: state of the finder process of signal class c
    bWorkers,        \* bWorkers[c][port]: state of the per-port process the finder started
    bEdison,         \* state of the connection_opener process of _get_edison_configs
    bPemPorts,       \* self._pem_ports
    bSerialPorts,    \* self._serial_ports
    bFiles,          \* bFiles[c]: the device files handed to the finder of class c
    bTrial,          \* cutters _get_device_configuration has been called for
    fPc,             \* position inside try_flash_model
    fArgs,           \* args: machine_retries, flash_retries, noflash
    fMachineAttempt, \* machine_attempt
    fFlashAttempt,   \* flash_attempt
    fDevice,         \* device returned by the last reserve(), 0 = none
    fHeld,           \* devices whose lock file this process holds locked
    fBusy,           \* environment: devices locked by other processes
    fLog,            \* history: reservations, flash failures, blacklistings, releases, in order
    rPc,             \* position inside recover_edisons
    rNames,          \* working_edison_names and blacklisted_edison_names
    rLocked,         \* locked_edisons
    rPos,            \* position of the loop in progress
    rHeld,           \* Edisons whose lock file this process holds locked
    rBusy,           \* environment: Edisons locked by other processes
    rPower,          \* rPower[e]: state of the cutter channel of Edison e
    rFlashing,       \* Edison whose recovery_flash is running, 0 = none
    rRecovered,      \* history: Edisons whose recovery_flash has returned
    rAttempt,        \* attempt: rounds of _lock_working_edisons started so far
    hFile,           \* hFile[d]: /etc/daft/lockfiles/<d>: "absent" or its lines
    hPc,             \* hPc[p]: position of pc_host caller p
    hArgs,           \* hArgs[p]: args.dut names a configured device type, args.noblacklisting
    hIdx,            \* hIdx[p]: position of the loop over the configured devices
    hFound,          \* hFound[p]: dut_found
    hAllBl,          \* hAllBl[p]: duts_blacklisted
    hDev,            \* hDev[p]: beaglebone_dut, 0 = None
    hQuiet           \* history: devices blacklisted by a run that ended while no other caller was running

poolVars == <<blacklistFile, path, lockOwner, pc, blRead, lockfiles,
              atexitQ, exiting, cands, idx, fd, relDev, elapsed, timeout,
              result, ret, attempts, sleeps, request, relStale, strand, built>>

modeVars == <<mVariant, mKb, mPc, mAttempt, mPower, mProbes, mIp, mCycles,
              mInjects, mWaits, mVerifies, mErrors, mOkAt, mLogged, mKbWarnings>>

cfgVars == <<cPlatform, cCatalog, cTopology, cResults>>

topoVars == <<tWire, tSerWire, tModel, tPowered, tNetConfigs, tSerialPorts,
              tDevices, tNext, tPc, tSections, tDryrun, tFile>>

raceVars == <<blDuring>>

\* the port lists of the builder and what its finders were given
bPorts == <<bPemPorts, bSerialPorts, bFiles, bTrial>>

baseVars == <<bPc, bLog, bFinder, bWorkers, bEdison, bPorts>>

flashVars == <<fPc, fArgs, fMachineAttempt, fFlashAttempt, fDevice, fHeld, fBusy, fLog>>

recVars == <<rPc, rNames, rLocked, rPos, rHeld, rBusy, rPower, rFlashing, rRecovered,
             rAttempt>>

hostVars == <<hFile, hPc, hArgs, hIdx, hFound, hAllBl, hDev, hQuiet>>

extVars == <<flashVars, recVars, hostVars>>

\* what try_flash_model leaves alone
notFlash == <<recVars, hostVars>>

\* what recover_edisons leaves alone
notRec == <<flashVars, hostVars>>

\* what pc_host leaves alone
notHost == <<flashVars, recVars>>

\* the pool's variables other than the blacklist file
poolButBlacklist == <<path, lockOwner, pc, blRead, lockfiles, atexitQ, exiting, cands, idx,
                      fd, relDev, elapsed, timeout, result, ret, attempts, sleeps, request,
                      relStale, strand, built>>

restVars == <<cfgVars, topoVars, raceVars, baseVars, extVars>>

vars == <<poolVars, modeVars, restVars>>

\* --------------------------------------------------------------- helpers
Range(s) == {s[i] : i \in 1..Len(s)}

RemoveAt(s, i) == SubSeq(s, 1, i - 1) \o SubSeq(s, i + 1, Len(s))

\* index of the first (dev_id, lockfile) entry for identity d, 0 if none
FirstEntry(lf, d) ==
    IF \E i \in 1..Len(lf) : lf[i][1] = d
    THEN CHOOSE i \in 1..Len(lf) : lf[i][1] = d /\ \A j \in 1..(i - 1) : lf[j][1] # d
    ELSE 0

InodeUsed(i) ==
    \/ \E d \in Devs : path[d] = i
    \/ lockOwner[i] # 0
    \/ \E p \in Procs : fd[p] = i

FreshInode == CHOOSE i \in InodeIds : ~InodeUsed(i) /\ \A j \in 1..(i - 1) : InodeUsed(j)

\* processes with a live reservation of identity d
Holders(d) == {p \in Procs : \E i \in 1..Len(lockfiles[p]) : lockfiles[p][i][1] = d}

\* ------------------------------------------------- candidate selection
MatchModel(machine) ==
    LET keep(d) == ModelOf(d) = machine IN SelectSeq(DeviceConfigs, keep)

MatchName(name) ==
    LET keep(d) == d = name
        found == SelectSeq(DeviceConfigs, keep)
    IN IF Len(found) = 0 THEN <<>> ELSE <<found[1]>>

MatchRequest(req) ==
    IF req.kind = "model" THEN MatchModel(req.arg) ELSE MatchName(req.arg)

RemoveBlacklisted(devices, bl) ==
    LET keep(d) == d \notin bl IN SelectSeq(devices, keep)

\* core: _do_reserve filters with the list read by the constructor
CoreCandidates(req, bl) == RemoveBlacklisted(MatchRequest(req), bl)

\* client: reserve() re-reads the file and filters; reserve_specific() does not filter
ClientCandidates(req, file) ==
    IF req.kind = "model" THEN RemoveBlacklisted(MatchRequest(req), file)
    ELSE MatchRequest(req)

\* variant: objects are constructed only once a lock is held
BuiltLazily(req) == {}

\* reserve / reserve_specific: build_cutter and build_device for every
\* descriptor that matches the request, before any filtering or locking
BuiltDevices(req) == Range(MatchRequest(req))

\* variant: an empty candidate list is not detected
NoCandidatesIgnored(devices) == FALSE

NoCandidates(devices) == Len(devices) = 0

\* variant: the loop gives up one polling interval early
LoopStopsEarly(el, t) == el + PollInterval < t

LoopContinues(el, t) == el < t

\* variant: the lock request is always granted
FlockAlwaysGranted(i) == TRUE

\* LOCK_EX | LOCK_NB: granted unless some open file already holds the lock
FlockGranted(i) == lockOwner[i] = 0

\* variant: the artifact's existence is the lock (O_EXCL)
OpenRefusedIfExists(d) == path[d] # 0

\* O_CREAT without O_EXCL: an artifact that already exists never makes os.open fail
OpenRefused(d) == FALSE

\* release unlinks the artifact whenever one exists, whoever created it
UnlinkWanted(p, d) == path[d] # 0

\* variant: no exit-time handler is registered
NotRegistered(q, d) == q

\* atexit.register(self.release, reserved_device=device)
Registered(q, d) == Append(q, d)

\* ------------------------------------------------------------------ Init
PoolInit ==
    /\ path = [d \in Devs |-> 0]
    /\ lockOwner = [i \in InodeIds |-> 0]
    /\ pc = [p \in Procs |-> "dead"]
    /\ blRead = [p \in Procs |-> {}]
    /\ lockfiles = [p \in Procs |-> <<>>]
    /\ atexitQ = [p \in Procs |-> <<>>]
    /\ exiting = [p \in Procs |-> FALSE]
    /\ cands = [p \in Procs |-> <<>>]
    /\ idx = [p \in Procs |-> 0]
    /\ fd = [p \in Procs |-> 0]
    /\ relDev = [p \in Procs |-> 0]
    /\ elapsed = [p \in Procs |-> 0]
    /\ timeout = [p \in Procs |-> 0]
    /\ result = [p \in Procs |-> "none"]
    /\ ret = [p \in Procs |-> 0]
    /\ attempts = [p \in Procs |-> 0]
    /\ sleeps = [p \in Procs |-> 0]
    /\ request = [p \in Procs |-> NoRequest]
    /\ built = [p \in Procs |-> {}]
    /\ relStale = [p \in Procs |-> FALSE]
    /\ strand = [d \in Devs |-> "no"]

\* no configuration files are being resolved
CfgOff ==
    /\ cPlatform = <<>>
    /\ cCatalog = <<>>
    /\ cTopology = <<>>
    /\ cResults = <<>>

\* no blacklisting has been observed
RaceOff == blDuring = {}

\* no baseline is being taken
BaseOff ==
    /\ bPc = "off"
    /\ bLog = <<>>
    /\ bFinder = <<>>
    /\ bWorkers = <<>>
    /\ bEdison = "none"
    /\ bPemPorts = {}
    /\ bSerialPorts = {}
    /\ bFiles = <<>>
    /\ bTrial = 0

\* try_flash_model is not running
FlashOff ==
    /\ fPc = "off"
    /\ fArgs = <<>>
    /\ fMachineAttempt = 0
    /\ fFlashAttempt = 0
    /\ fDevice = 0
    /\ fHeld = {}
    /\ fBusy = {}
    /\ fLog = <<>>

\* recover_edisons is not running
RecOff ==
    /\ rPc = "off"
    /\ rNames = <<>>
    /\ rLocked = <<>>
    /\ rPos = 0
    /\ rHeld = {}
    /\ rBusy = {}
    /\ rPower = <<>>
    /\ rFlashing = 0
    /\ rRecovered = {}
    /\ rAttempt = 0

\* pc_host is not running
HostOff ==
    /\ hFile = <<>>
    /\ hPc = <<>>
    /\ hArgs = <<>>
    /\ hIdx = <<>>
    /\ hFound = <<>>
    /\ hAllBl = <<>>
    /\ hDev = <<>>
    /\ hQuiet = {}

\* none of the command-line tools is running
ExtOff ==
    /\ FlashOff
    /\ RecOff
    /\ HostOff

\* no topology is being built
TopoOff ==
    /\ tWire = <<>>
    /\ tSerWire = <<>>
    /\ tModel = <<>>
    /\ tPowered = {}
    /\ tNetConfigs = <<>>
    /\ tSerialPorts = {}
    /\ tDevices = <<>>
    /\ tNext = 0
    /\ tPc = "off"
    /\ tSections = <<>>
    /\ tDryrun = FALSE
    /\ tFile = [state |-> "absent", sections |-> <<>>]

\* no mode entry is in progress
ModeOff ==
    /\ mVariant = "core"
    /\ mKb = TRUE
    /\ mPc = "off"
    /\ mAttempt = 0
    /\ mPower = "on"
    /\ mProbes = 0
    /\ mIp = 0
    /\ mCycles = 0
    /\ mInjects = 0
    /\ mWaits = 0
    /\ mVerifies = 0
    /\ mErrors = 0
    /\ mOkAt = 0
    /\ mLogged = FALSE
    /\ mKbWarnings = 0

\* the lock protocol: nothing is blacklisted
Init ==
    /\ blacklistFile = {}
    /\ PoolInit
    /\ ModeOff
    /\ CfgOff
    /\ TopoOff
    /\ RaceOff
    /\ BaseOff
    /\ ExtOff

\* candidate filtering: the blacklist file holds any set of identities
InitFilter ==
    /\ blacklistFile \in SUBSET Devs
    /\ PoolInit
    /\ ModeOff
    /\ CfgOff
    /\ TopoOff
    /\ RaceOff
    /\ BaseOff
    /\ ExtOff

\* ------------------------------------------------------------ pool actions
\* DevicesManager.__init__: the core pool reads the blacklist file once
Start(p) ==
    /\ pc[p] = "dead"
    /\ pc' = [pc EXCEPT ![p] = "idle"]
    /\ blRead' = [blRead EXCEPT ![p] = IF VariantOf(p) = "core" THEN blacklistFile ELSE {}]
    /\ UNCHANGED <<modeVars, restVars, built, blacklistFile, path, lockOwner, lockfiles, atexitQ, exiting,
                   cands, idx, fd, relDev, elapsed, timeout, result, ret,
                   attempts, sleeps, request, relStale, strand>>

\* position after the for-loop reaches index i of the devices list
NextInRound(devices, i) == IF i <= Len(devices) THEN "open" ELSE "sleep"

\* reserve / reserve_specific up to the first evaluation of the while condition
ReserveCall(p, req, t) ==
    /\ pc[p] = "idle"
    /\ Len(atexitQ[p]) < MaxReserves
    /\ LET devices == IF VariantOf(p) = "core"
                      THEN CoreCandidates(req, blRead[p])
                      ELSE ClientCandidates(req, blacklistFile)
       IN /\ cands' = [cands EXCEPT ![p] = devices]
          /\ IF NoCandidates(devices)
             THEN /\ result' = [result EXCEPT ![p] = "config_error"]
                  /\ pc' = pc
                  /\ idx' = [idx EXCEPT ![p] = 0]
             ELSE IF LoopContinues(0, t)
             THEN /\ result' = [result EXCEPT ![p] = "none"]
                  /\ pc' = [pc EXCEPT ![p] = NextInRound(devices, 1)]
                  /\ idx' = [idx EXCEPT ![p] = 1]
             ELSE /\ result' = [result EXCEPT ![p] = "timeout_error"]
                  /\ pc' = pc
                  /\ idx' = [idx EXCEPT ![p] = 0]
    /\ timeout' = [timeout EXCEPT ![p] = t]
    /\ elapsed' = [elapsed EXCEPT ![p] = 0]
    /\ ret' = [ret EXCEPT ![p] = 0]
    /\ attempts' = [attempts EXCEPT ![p] = 0]
    /\ sleeps' = [sleeps EXCEPT ![p] = 0]
    /\ request' = [request EXCEPT ![p] = req]
    /\ built' = [built EXCEPT ![p] = BuiltDevices(req)]
    /\ UNCHANGED <<modeVars, restVars, blacklistFile, path, lockOwner, blRead, lockfiles,
                   atexitQ, exiting, fd, relDev, relStale, strand>>

\* os.open(path, O_WRONLY | O_CREAT): creates the artifact when it is absent
Open(p) ==
    /\ pc[p] = "open"
    /\ LET d == cands[p][idx[p]]
           np == IF path[d] = 0 THEN [path EXCEPT ![d] = FreshInode] ELSE path
       IN IF OpenRefused(d)
          THEN /\ attempts' = [attempts EXCEPT ![p] = @ + 1]
               /\ idx' = [idx EXCEPT ![p] = @ + 1]
               /\ pc' = [pc EXCEPT ![p] = NextInRound(cands[p], idx[p] + 1)]
               /\ UNCHANGED <<path, fd>>
          ELSE /\ path' = np
               /\ fd' = [fd EXCEPT ![p] = np[d]]
               /\ pc' = [pc EXCEPT ![p] = "flock"]
               /\ UNCHANGED <<attempts, idx>>
    /\ UNCHANGED <<modeVars, restVars, built, blacklistFile, lockOwner, blRead, lockfiles, atexitQ, exiting,
                   cands, relDev, elapsed, timeout, result, ret, sleeps, request,
                   relStale, strand>>

\* fcntl.flock(LOCK_EX | LOCK_NB); on success append, register release, return
Flock(p) ==
    /\ pc[p] = "flock"
    /\ attempts' = [attempts EXCEPT ![p] = @ + 1]
    /\ fd' = [fd EXCEPT ![p] = 0]
    /\ LET d == cands[p][idx[p]]
       IN IF FlockGranted(fd[p])
          THEN /\ lockOwner' = [lockOwner EXCEPT ![fd[p]] = p]
               /\ lockfiles' = [lockfiles EXCEPT ![p] = Append(@, <<d, fd[p]>>)]
               /\ atexitQ' = [atexitQ EXCEPT ![p] = Registered(@, d)]
               /\ result' = [result EXCEPT ![p] = "device"]
               /\ ret' = [ret EXCEPT ![p] = d]
               /\ pc' = [pc EXCEPT ![p] = "idle"]
               /\ idx' = [idx EXCEPT ![p] = 0]
               /\ strand' = [strand EXCEPT ![d] = IF @ = "stranded" THEN "recovered" ELSE @]
          ELSE /\ idx' = [idx EXCEPT ![p] = @ + 1]
               /\ pc' = [pc EXCEPT ![p] = NextInRound(cands[p], idx[p] + 1)]
               /\ UNCHANGED <<lockOwner, lockfiles, atexitQ, result, ret, strand>>
    /\ UNCHANGED <<modeVars, restVars, built, blacklistFile, path, blRead, exiting, cands, relDev, elapsed,
                   timeout, sleeps, request, relStale>>

\* variant: every round filters the candidates against the blacklist file again
RefilteredEachRound(p) == RemoveBlacklisted(cands[p], blacklistFile)

\* for device in devices: every round walks the list filtered at the start
RoundCandidates(p) == cands[p]

\* time.sleep(10) after a round, then the while condition again
Sleep(p) ==
    /\ pc[p] = "sleep"
    /\ sleeps' = [sleeps EXCEPT ![p] = @ + 1]
    /\ elapsed' = [elapsed EXCEPT ![p] = @ + PollInterval]
    /\ cands' = [cands EXCEPT ![p] = RoundCandidates(p)]
    /\ IF LoopContinues(elapsed'[p], timeout[p])
       THEN /\ idx' = [idx EXCEPT ![p] = 1]
            /\ pc' = [pc EXCEPT ![p] = NextInRound(cands'[p], 1)]
            /\ result' = result
       ELSE /\ idx' = [idx EXCEPT ![p] = 0]
            /\ pc' = [pc EXCEPT ![p] = "idle"]
            /\ result' = [result EXCEPT ![p] = "timeout_error"]
    /\ UNCHANGED <<modeVars, restVars, built, blacklistFile, path, lockOwner, blRead, lockfiles, atexitQ,
                   exiting, fd, relDev, timeout, ret, attempts, request,
                   relStale, strand>>

\* the locals of the last reserve call are gone once the caller moves on
ForgetCall(p) ==
    /\ cands' = [cands EXCEPT ![p] = <<>>]
    /\ elapsed' = [elapsed EXCEPT ![p] = 0]
    /\ timeout' = [timeout EXCEPT ![p] = 0]
    /\ ret' = [ret EXCEPT ![p] = 0]
    /\ attempts' = [attempts EXCEPT ![p] = 0]
    /\ sleeps' = [sleeps EXCEPT ![p] = 0]
    /\ request' = [request EXCEPT ![p] = NoRequest]
    /\ built' = [built EXCEPT ![p] = {}]

\* the loop at the head of release: close and forget the first entry for d
ClosedLocks(p, d) ==
    LET i == FirstEntry(lockfiles[p], d)
    IN IF i = 0 THEN lockOwner
       ELSE [lockOwner EXCEPT ![lockfiles[p][i][2]] = 0]

ClosedLockfiles(p, d) ==
    LET i == FirstEntry(lockfiles[p], d)
    IN IF i = 0 THEN lockfiles
       ELSE [lockfiles EXCEPT ![p] = RemoveAt(@, i)]

\* release(reserved_device) up to the end of its loop over self._lockfiles
ReleaseEnter(p, d) ==
    /\ lockOwner' = ClosedLocks(p, d)
    /\ lockfiles' = ClosedLockfiles(p, d)
    /\ relDev' = [relDev EXCEPT ![p] = d]
    /\ relStale' = [relStale EXCEPT ![p] = FirstEntry(lockfiles[p], d) = 0]
    /\ strand' = [strand EXCEPT ![d] = IF FirstEntry(lockfiles[p], d) # 0 /\ @ = "recovered"
                                        THEN "no" ELSE @]
    /\ pc' = [pc EXCEPT ![p] = "rel_isfile"]

\* release(reserved_device) called with a handle that reserve returned
ReleaseCall(p, d) ==
    /\ pc[p] = "idle"
    /\ d \in Range(atexitQ[p])
    /\ ReleaseEnter(p, d)
    /\ result' = [result EXCEPT ![p] = "none"]
    /\ ForgetCall(p)
    /\ UNCHANGED <<modeVars, restVars, blacklistFile, path, blRead, atexitQ, exiting, idx, fd>>

ReleaseReturn(p, outcome) ==
    /\ pc' = [pc EXCEPT ![p] = IF exiting[p] THEN "atexit" ELSE "idle"]
    /\ relDev' = [relDev EXCEPT ![p] = 0]
    /\ relStale' = [relStale EXCEPT ![p] = FALSE]
    /\ result' = [result EXCEPT ![p] = outcome]

\* if reserved_device: ... os.path.isfile(path)
ReleaseIsfile(p) ==
    /\ pc[p] = "rel_isfile"
    /\ IF UnlinkWanted(p, relDev[p])
       THEN /\ pc' = [pc EXCEPT ![p] = "rel_unlink"]
            /\ UNCHANGED <<relDev, relStale, result>>
       ELSE ReleaseReturn(p, "released")
    /\ UNCHANGED <<modeVars, restVars, built, blacklistFile, path, lockOwner, blRead, lockfiles, atexitQ,
                   exiting, cands, idx, fd, elapsed, timeout, ret, attempts,
                   sleeps, request, strand>>

\* os.unlink(path): OSError when another process removed the file meanwhile
ReleaseUnlink(p) ==
    /\ pc[p] = "rel_unlink"
    /\ IF path[relDev[p]] # 0
       THEN /\ path' = [path EXCEPT ![relDev[p]] = 0]
            /\ ReleaseReturn(p, "released")
       ELSE /\ path' = path
            /\ ReleaseReturn(p, "os_error")
    /\ UNCHANGED <<modeVars, restVars, built, blacklistFile, lockOwner, blRead, lockfiles, atexitQ, exiting,
                   cands, idx, fd, elapsed, timeout, ret, attempts, sleeps,
                   request, strand>>

\* the interpreter exits (return from main, unhandled error, sys.exit after
\* KeyboardInterrupt): whatever was running is abandoned, atexit handlers run
Exit(p) ==
    /\ pc[p] \notin {"dead", "atexit"}
    /\ ~exiting[p]
    /\ exiting' = [exiting EXCEPT ![p] = TRUE]
    /\ pc' = [pc EXCEPT ![p] = "atexit"]
    /\ fd' = [fd EXCEPT ![p] = 0]
    /\ relDev' = [relDev EXCEPT ![p] = 0]
    /\ relStale' = [relStale EXCEPT ![p] = FALSE]
    /\ idx' = [idx EXCEPT ![p] = 0]
    /\ result' = [result EXCEPT ![p] = "none"]
    /\ ForgetCall(p)
    /\ UNCHANGED <<modeVars, restVars, blacklistFile, path, lockOwner, blRead, lockfiles, atexitQ,
                   strand>>

\* atexit runs the registered release calls, last registered first
AtexitRun(p) ==
    /\ pc[p] = "atexit"
    /\ atexitQ[p] # <<>>
    /\ ReleaseEnter(p, atexitQ[p][Len(atexitQ[p])])
    /\ atexitQ' = [atexitQ EXCEPT ![p] = SubSeq(@, 1, Len(@) - 1)]
    /\ UNCHANGED <<modeVars, restVars, built, blacklistFile, path, blRead, exiting, cands, idx, fd, elapsed,
                   timeout, result, ret, attempts, sleeps, request>>

\* the process is gone: the kernel closes its files, which drops their locks
Terminate(p) ==
    /\ lockOwner' = [i \in InodeIds |-> IF lockOwner[i] = p THEN 0 ELSE lockOwner[i]]
    /\ pc' = [pc EXCEPT ![p] = "dead"]
    /\ blRead' = [blRead EXCEPT ![p] = {}]
    /\ lockfiles' = [lockfiles EXCEPT ![p] = <<>>]
    /\ atexitQ' = [atexitQ EXCEPT ![p] = <<>>]
    /\ exiting' = [exiting EXCEPT ![p] = FALSE]
    /\ cands' = [cands EXCEPT ![p] = <<>>]
    /\ idx' = [idx EXCEPT ![p] = 0]
    /\ fd' = [fd EXCEPT ![p] = 0]
    /\ relDev' = [relDev EXCEPT ![p] = 0]
    /\ relStale' = [relStale EXCEPT ![p] = FALSE]
    /\ elapsed' = [elapsed EXCEPT ![p] = 0]
    /\ timeout' = [timeout EXCEPT ![p] = 0]
    /\ result' = [result EXCEPT ![p] = "none"]
    /\ ret' = [ret EXCEPT ![p] = 0]
    /\ attempts' = [attempts EXCEPT ![p] = 0]
    /\ sleeps' = [sleeps EXCEPT ![p] = 0]
    /\ request' = [request EXCEPT ![p] = NoRequest]
    /\ built' = [built EXCEPT ![p] = {}]
    /\ UNCHANGED <<modeVars, restVars, blacklistFile, path>>

\* the last atexit handler has returned
ProcessEnd(p) ==
    /\ pc[p] = "atexit"
    /\ atexitQ[p] = <<>>
    /\ Terminate(p)
    /\ UNCHANGED strand

\* the process dies without running atexit (SIGKILL, power loss)
Kill(p) ==
    /\ pc[p] # "dead"
    /\ Terminate(p)
    /\ strand' = [d \in Devs |-> IF p \in Holders(d) THEN "stranded" ELSE strand[d]]

Next ==
    \/ \E p \in Procs : Start(p)
    \/ \E p \in Procs, req \in Requests, t \in TimeoutChoices : ReserveCall(p, req, t)
    \/ \E p \in Procs : Open(p)
    \/ \E p \in Procs : Flock(p)
    \/ \E p \in Procs : Sleep(p)
    \/ \E p \in Procs, d \in Devs : ReleaseCall(p, d)
    \/ \E p \in Procs : ReleaseIsfile(p)
    \/ \E p \in Procs : ReleaseUnlink(p)
    \/ \E p \in Procs : Exit(p)
    \/ \E p \in Procs : AtexitRun(p)
    \/ \E p \in Procs : ProcessEnd(p)

Spec == Init /\ [][Next]_vars

\* the pool with callers that never release: they die without running atexit
\* (SIGKILL, power loss)
NextCrash ==
    \/ \E p \in Procs : Start(p)
    \/ \E p \in Procs, req \in Requests, t \in {MaxTimeout} : ReserveCall(p, req, t)
    \/ \E p \in Procs : Open(p)
    \/ \E p \in Procs : Flock(p)
    \/ \E p \in Procs : Sleep(p)
    \/ \E p \in Procs : Kill(p)

SpecCrash == Init /\ [][NextCrash]_vars

\* the pool with any device set found in the blacklist file; callers leave the
\* release of what they reserved to their exit
NextFilter ==
    \/ \E p \in Procs : Start(p)
    \/ \E p \in Procs, req \in Requests, t \in {0, PollInterval} : ReserveCall(p, req, t)
    \/ \E p \in Procs : Open(p)
    \/ \E p \in Procs : Flock(p)
    \/ \E p \in Procs : Sleep(p)
    \/ \E p \in Procs : ReleaseIsfile(p)
    \/ \E p \in Procs : ReleaseUnlink(p)
    \/ \E p \in Procs : pc[p] = "idle" /\ Exit(p)
    \/ \E p \in Procs : AtexitRun(p)
    \/ \E p \in Procs : ProcessEnd(p)

SpecFilter == InitFilter /\ [][NextFilter]_vars

\* two callers that each call reserve once for the one device named 1 and
\* release what they got; nobody else touches the lock directory
PairRequest == [kind |-> "name", arg |-> 1]

NextPair ==
    \/ \E p \in Procs : Start(p)
    \/ \E p \in Procs, t \in TimeoutChoices :
          /\ atexitQ[p] = <<>> /\ result[p] = "none"
          /\ ReserveCall(p, PairRequest, t)
    \/ \E p \in Procs : Open(p)
    \/ \E p \in Procs : Flock(p)
    \/ \E p \in Procs : Sleep(p)
    \/ \E p \in Procs : ReleaseCall(p, 1)
    \/ \E p \in Procs : ReleaseIsfile(p)
    \/ \E p \in Procs : ReleaseUnlink(p)

SpecPair == Init /\ [][NextPair]_vars

\* ------------------------------------------------- blacklisting while polling
\* the blacklist file after an entry for identity d has been appended
BlacklistAdded(file, d) == file \cup {d}

\* the processes that are inside the polling loop with d among their candidates
PollingFor(d) ==
    {p \in Procs : pc[p] \in {"open", "flock", "sleep"} /\ d \in Range(cands[p])}

\* blacklist_device run by an operator or by automation in a process of its
\* own: the name is resolved to the identity and the entry is appended
BlacklistDevice(d) ==
    /\ d \notin blacklistFile
    /\ blacklistFile' = BlacklistAdded(blacklistFile, d)
    /\ blDuring' = blDuring \cup {<<p, d>> : p \in PollingFor(d)}
    /\ UNCHANGED <<modeVars, cfgVars, topoVars, baseVars, extVars, path, lockOwner, pc, blRead, lockfiles,
                   atexitQ, exiting, cands, idx, fd, relDev, elapsed, timeout,
                   result, ret, attempts, sleeps, request, relStale, strand, built>>

\* callers that each reserve a device of model "a" once, while devices get
\* blacklisted
RaceRequest == [kind |-> "model", arg |-> "a"]

NextRace ==
    \/ \E p \in Procs : Start(p)
    \/ \E p \in Procs, t \in TimeoutChoices :
          /\ atexitQ[p] = <<>> /\ result[p] = "none"
          /\ ReserveCall(p, RaceRequest, t)
    \/ \E p \in Procs : Open(p)
    \/ \E p \in Procs : Flock(p)
    \/ \E p \in Procs : Sleep(p)
    \/ \E d \in Devs : BlacklistDevice(d)

SpecRace == Init /\ [][NextRace]_vars

\* --------------------------------------------------------------- mode entry
\* PCDevice._enter_mode of src/devices/pcdevice.py ("core") and of
\* src/testing_harness/devices/pcdevice.py ("harness")
ModeVariants == {"core", "harness"}

RetryAttempts(v) == IF v = "core" THEN CoreRetryAttempts ELSE HarnessRetryAttempts

\* variant: one attempt more than the bound
OneMoreAttempt(n, v) == n <= RetryAttempts(v)

\* for _ in range(self._RETRY_ATTEMPTS)
MoreAttempts(n, v) == n < RetryAttempts(v)

\* variant: one polling round more than the timeout allows
OneProbeMore == BootTimeout \div IpPollingInterval + 1

\* range(timeout / polling_interval) in wait_for_responsive_ip_for_pc_device
MaxProbes == BootTimeout \div IpPollingInterval

\* variant: a polling round that is not counted
ProbeNotCounted(n) == n

\* the for loop of the wait moves to its next round
NextProbe(n) == n + 1

\* core always plays the sequence through PEM; harness only with a kb_emulator
HasInjector(v, kb) == v = "core" \/ kb

\* variant: a successful verification does not end the loop
AfterVerifyGoesOn(ok) == "loop"

\* if self._verify_mode(...): return
AfterVerify(ok) == IF ok THEN "returned" ELSE "loop"

\* the core PCDevice constructor reads parameters["pem_interface"] and
\* parameters["pem_port"]: without them no device object exists and no mode
\* entry starts; the harness takes kb_emulator = None
ConstructedDevice(v, kb) == IF v = "core" /\ ~kb THEN "KeyError" ELSE "loop"

InitMode ==
    /\ blacklistFile = {}
    /\ PoolInit
    /\ CfgOff
    /\ TopoOff
    /\ RaceOff
    /\ BaseOff
    /\ ExtOff
    /\ mVariant \in ModeVariants
    /\ mKb \in BOOLEAN
    /\ mPc = ConstructedDevice(mVariant, mKb)
    /\ mAttempt = 0
    /\ mPower \in {"on", "off"}
    /\ mProbes = 0
    /\ mIp = 0
    /\ mCycles = 0
    /\ mInjects = 0
    /\ mWaits = 0
    /\ mVerifies = 0
    /\ mErrors = 0
    /\ mOkAt = 0
    /\ mLogged = FALSE
    /\ mKbWarnings = 0

\* head of the for loop; after the last iteration: log critical, raise AFTDeviceError
NextAttempt ==
    /\ mPc = "loop"
    /\ IF MoreAttempts(mAttempt, mVariant)
       THEN /\ mAttempt' = mAttempt + 1
            /\ mPc' = "detach"
       ELSE /\ mAttempt' = mAttempt
            /\ mPc' = "device_error"
    /\ mLogged' = IF MoreAttempts(mAttempt, mVariant) THEN FALSE ELSE mLogged
    /\ UNCHANGED <<poolVars, restVars, mKbWarnings, mVariant, mKb, mPower, mProbes, mIp, mCycles,
                   mInjects, mWaits, mVerifies, mErrors, mOkAt>>

\* variant: the channel is connected again straight after the disconnect
DetachSkipsDelay == "attach"

\* after self.detach() comes sleep(self._POWER_CYCLE_DELAY)
AfterDetach == "delay"

\* Device._power_cycle: self.detach()
Detach ==
    /\ mPc = "detach"
    /\ mPower' = "off"
    /\ mPc' = AfterDetach
    /\ UNCHANGED <<poolVars, restVars, mKbWarnings, mLogged, mVariant, mKb, mAttempt, mProbes, mIp, mCycles,
                   mInjects, mWaits, mVerifies, mErrors, mOkAt>>

\* Device._power_cycle: sleep(self._POWER_CYCLE_DELAY)
PowerDelay ==
    /\ mPc = "delay"
    /\ mPc' = "attach"
    /\ UNCHANGED <<poolVars, restVars, mKbWarnings, mLogged, mVariant, mKb, mAttempt, mPower, mProbes, mIp,
                   mCycles, mInjects, mWaits, mVerifies, mErrors, mOkAt>>

\* Device._power_cycle: self.attach()
Attach ==
    /\ mPc = "attach"
    /\ mPower' = "on"
    /\ mCycles' = mCycles + 1
    /\ mPc' = "inject"
    /\ UNCHANGED <<poolVars, restVars, mKbWarnings, mLogged, mVariant, mKb, mAttempt, mProbes, mIp, mInjects,
                   mWaits, mVerifies, mErrors, mOkAt>>

\* pem_main(... "--playback", sequence) / kb_emulator.send_keystrokes(sequence),
\* or the warning when the harness device has no keyboard emulator
Inject ==
    /\ mPc = "inject"
    /\ mInjects' = IF HasInjector(mVariant, mKb) THEN mInjects + 1 ELSE mInjects
    /\ mKbWarnings' = IF HasInjector(mVariant, mKb) THEN mKbWarnings ELSE mKbWarnings + 1
    /\ mProbes' = 0
    /\ mPc' = "wait"
    /\ UNCHANGED <<poolVars, restVars, mLogged, mVariant, mKb, mAttempt, mPower, mIp, mCycles,
                   mWaits, mVerifies, mErrors, mOkAt>>

\* one iteration of the polling loop: the identity answers, or sleep and go on
Probe(responsive) ==
    /\ mPc = "wait"
    /\ mProbes < MaxProbes
    /\ IF responsive
       THEN /\ mIp' = 1
            /\ mWaits' = mWaits + 1
            /\ mProbes' = 0
            /\ mPc' = "check"
       ELSE /\ mProbes' = NextProbe(mProbes)
            /\ UNCHANGED <<mIp, mWaits, mPc>>
    /\ UNCHANGED <<poolVars, restVars, mKbWarnings, mLogged, mVariant, mKb, mAttempt, mPower, mCycles, mInjects,
                   mVerifies, mErrors, mOkAt>>

\* the polling loop ran out: the wait returns None
WaitExpired ==
    /\ mPc = "wait"
    /\ mProbes = MaxProbes
    /\ mIp' = 0
    /\ mWaits' = mWaits + 1
    /\ mProbes' = 0
    /\ mPc' = "check"
    /\ UNCHANGED <<poolVars, restVars, mKbWarnings, mLogged, mVariant, mKb, mAttempt, mPower, mCycles, mInjects,
                   mVerifies, mErrors, mOkAt>>

\* if ip_address: ... else: logging.warning("Failed entering ...")
CheckIp ==
    /\ mPc = "check"
    /\ mPc' = IF mIp # 0 THEN "verify" ELSE "loop"
    /\ mLogged' = (mIp = 0)
    /\ UNCHANGED <<poolVars, restVars, mKbWarnings, mVariant, mKb, mAttempt, mPower, mProbes, mIp,
                   mCycles, mInjects, mWaits, mVerifies, mErrors, mOkAt>>

\* verify_device_mode logs a warning only when the ssh command itself failed;
\* a /proc/version without the mode name returns False without a log line
VerifyLogs(ok, sshFailed) == ~ok /\ sshFailed

\* self._verify_mode(name): the mode name is, or is not, in /proc/version
Verify(ok) ==
    /\ mPc = "verify"
    /\ mVerifies' = mVerifies + 1
    /\ mOkAt' = IF ok THEN mAttempt ELSE mOkAt
    /\ mPc' = AfterVerify(ok)
    /\ \E sshFailed \in BOOLEAN : mLogged' = VerifyLogs(ok, sshFailed)
    /\ UNCHANGED <<poolVars, restVars, mKbWarnings, mVariant, mKb, mAttempt, mPower, mProbes, mIp,
                   mCycles, mInjects, mWaits, mErrors>>

\* variant: no handler around the attempt
ExceptionPropagates(v, kind) == IF kind = "interrupt" THEN "interrupted" ELSE "propagated"

\* where an exception raised inside an attempt leads: the core has no handler,
\* the harness has `except KeyboardInterrupt: raise` and a bare except that logs
AfterException(v, kind) ==
    IF kind = "interrupt" THEN "interrupted"
    ELSE IF v = "core" THEN "propagated"
    ELSE "loop"

\* an exception inside an attempt: the core lets every exception propagate;
\* the harness re-raises KeyboardInterrupt and logs and swallows the rest
Raise(kind) ==
    /\ mPc \in {"detach", "delay", "attach", "inject", "wait", "check", "verify"}
    /\ mPc' = AfterException(mVariant, kind)
    /\ mErrors' = IF AfterException(mVariant, kind) = "loop" THEN mErrors + 1 ELSE mErrors
    /\ mLogged' = (kind # "interrupt" /\ mVariant # "core")
    /\ UNCHANGED <<poolVars, restVars, mKbWarnings, mVariant, mKb, mAttempt, mPower, mProbes, mIp,
                   mCycles, mInjects, mWaits, mVerifies, mOkAt>>

NextMode ==
    \/ NextAttempt
    \/ Detach
    \/ PowerDelay
    \/ Attach
    \/ Inject
    \/ \E responsive \in BOOLEAN : Probe(responsive)
    \/ WaitExpired
    \/ CheckIp
    \/ \E ok \in BOOLEAN : Verify(ok)
    \/ \E kind \in {"error", "interrupt"} : Raise(kind)

SpecMode == InitMode /\ [][NextMode]_vars

\* ------------------------------------------------------------- termination
\* a reserve call of two competing processes, or one mode entry
InitRetry == Init \/ InitMode

\* the two scenarios do not mix: the pool moves only when no mode entry runs
NextRetry ==
    \/ (ModeOff /\ NextPair)
    \/ NextMode

\* a process inside reserve takes its next step
ReserveStep(p) == Open(p) \/ Flock(p) \/ Sleep(p)

\* the step mode entry takes by itself when nothing answers and nothing
\* is raised; whether the device answers is left open
ModeStep ==
    \/ NextAttempt
    \/ Detach
    \/ PowerDelay
    \/ Attach
    \/ Inject
    \/ Probe(FALSE)
    \/ WaitExpired
    \/ CheckIp
    \/ \E ok \in BOOLEAN : Verify(ok)

\* every call the loops make returns, so a running loop takes its next step
SpecRetry ==
    /\ InitRetry
    /\ [][NextRetry]_vars
    /\ \A p \in Procs : WF_vars(ReserveStep(p))
    /\ WF_vars(ModeStep)

TypeOK ==
    /\ blacklistFile \subseteq Devs
    /\ path \in [Devs -> InodeIds \cup {0}]
    /\ lockOwner \in [InodeIds -> Procs \cup {0}]
    /\ \A p \in Procs : Len(lockfiles[p]) <= MaxReserves /\ Len(atexitQ[p]) <= MaxReserves

\* ------------------------------------------------ configuration resolution
\* DevicesManager._construct_configs of src/devicesmanager.py
SerialLogName == "serial.log"

OptionKeys == {"x", "name", "serial_log_name"}

\* section titles of the topology file; ConfigParser keeps their case
Titles == {"DEV", "dev", "box"}

\* str.lower() on the titles and model names that occur
Lower(t) == IF t = "DEV" THEN "dev" ELSE t

\* dict.update: the argument's values replace the receiver's
Update(a, b) == [k \in DOMAIN a \cup DOMAIN b |-> IF k \in DOMAIN b THEN b[k] ELSE a[k]]

\* d[k] = v
Put(a, k, v) == [j \in DOMAIN a \cup {k} |-> IF j = k THEN v ELSE a[j]]

\* a platform section gives its options the value "1", a catalog section "2",
\* a topology section "3"
PlatformEntries == {[k \in ks |-> "1"] : ks \in SUBSET OptionKeys}
CatalogEntries == {Put([k \in ks |-> "2"], "platform", "p") : ks \in SUBSET OptionKeys}
UnitEntries == {Put([k \in ks |-> "3"], "model", "m") : ks \in SUBSET OptionKeys}

\* the platform file has the section "p" or not, the catalog the section "m" or not
PlatformFiles == {<<>>} \cup {[sec \in {"p"} |-> e] : e \in PlatformEntries}
CatalogFiles == {<<>>} \cup {[sec \in {"m"} |-> e] : e \in CatalogEntries}

Units == [title : Titles, entry : UnitEntries]

\* sections() lists every title once, in file order
TopologyFiles ==
    UNION {{t \in [1..n -> Units] :
              \A i \in 1..n : \A j \in 1..n : i # j => t[i].title # t[j].title}
           : n \in 0..MaxUnits}

\* variant: the catalog entry overrides the unit entry
MergeCatalogLast(platformEntry, catalogEntry, deviceEntry) ==
    Update(Update(platformEntry, deviceEntry), catalogEntry)

\* settings.update(platform_entry); .update(catalog_entry); .update(device_entry)
MergeSettings(platformEntry, catalogEntry, deviceEntry) ==
    Update(Update(platformEntry, catalogEntry), deviceEntry)

\* the descriptor appended for one topology section
DeviceParam(title, platformEntry, catalogEntry, deviceEntry) ==
    [name |-> Lower(title),
     model |-> Lower(deviceEntry["model"]),
     settings |-> Put(Put(MergeSettings(platformEntry, catalogEntry, deviceEntry),
                          "name", Lower(title)),
                      "serial_log_name", SerialLogName)]

\* ConfigParser.items(section) on a section the file does not have
NoSection == [error |-> "NoSectionError", configs |-> <<>>]

\* the loop over topology_config.sections() and the check that follows it
RECURSIVE BuildConfigs(_, _, _, _, _)
BuildConfigs(platformFile, catalogFile, topology, i, configs) ==
    IF i > Len(topology)
    THEN IF Len(configs) = 0
         THEN [error |-> "AFTConfigurationError", configs |-> <<>>]
         ELSE [error |-> "none", configs |-> configs]
    ELSE LET deviceEntry == topology[i].entry
             model == deviceEntry["model"]
         IN IF model \notin DOMAIN catalogFile
            THEN NoSection
            ELSE LET catalogEntry == catalogFile[model]
                     platform == catalogEntry["platform"]
                 IN IF platform \notin DOMAIN platformFile
                    THEN NoSection
                    ELSE BuildConfigs(platformFile, catalogFile, topology, i + 1,
                                      Append(configs,
                                             DeviceParam(topology[i].title,
                                                         platformFile[platform],
                                                         catalogEntry, deviceEntry)))

\* variant: the list of descriptors survives from one run to the next
CarriedConfigs(previous) == previous

\* configs = []
FreshConfigs(previous) == <<>>

ConstructConfigs(platformFile, catalogFile, topology, previous) ==
    BuildConfigs(platformFile, catalogFile, topology, 1, FreshConfigs(previous))

InitConfig ==
    /\ blacklistFile = {}
    /\ PoolInit
    /\ ModeOff
    /\ cPlatform \in PlatformFiles
    /\ cCatalog \in CatalogFiles
    /\ cTopology \in TopologyFiles
    /\ cResults = <<>>
    /\ TopoOff
    /\ RaceOff
    /\ BaseOff
    /\ ExtOff

\* one construction of a DevicesManager over the files as they are
ConstructRun ==
    /\ Len(cResults) < MaxRuns
    /\ LET previous == IF cResults = <<>> THEN <<>> ELSE cResults[Len(cResults)].configs
       IN cResults' = Append(cResults,
                             ConstructConfigs(cPlatform, cCatalog, cTopology, previous))
    /\ UNCHANGED <<poolVars, modeVars, raceVars, baseVars, extVars, topoVars, cPlatform, cCatalog, cTopology>>

NextConfig == ConstructRun

SpecConfig == InitConfig /\ [][NextConfig]_vars

\* ------------------------------------------------------ topology discovery

Channels == 1..NumChannels
Nets == 1..NumNets
SerialPorts == {1, 2}

\* model names of the MAC prefix table; two of them differ only in case
ModelNames == {"nuc", "Nuc", "box"}

\* str.upper() on a model name
Upper(m) == IF m \in {"nuc", "Nuc"} THEN "NUC" ELSE "BOX"

\* a ping of identity n is answered: its device has power
NetResponds(n, powered) == tWire[n] = 0 \/ tWire[n] \in powered

\* a serial port still echoes: its device has power
PortResponds(port, powered) == tSerWire[port] = 0 \/ tSerWire[port] \in powered

\* the leased identities that no longer answer, in the order of the list
DeadNets(configs, powered) ==
    SelectSeq(configs, LAMBDA n : ~NetResponds(n, powered))

\* the loop returns at the first identity that does not answer; 0 = none
FirstDeadNet(configs, powered) ==
    IF DeadNets(configs, powered) = <<>> THEN 0 ELSE DeadNets(configs, powered)[1]

\* the network branch writes no warning
NetWarns(configs, powered) == FALSE

\* dead_ports = self._serial_ports.difference(active_ports)
DeadPorts(ports, powered) == {port \in ports : ~PortResponds(port, powered)}

\* the port is taken only when exactly one port died; 0 = none
SerialChoice(ports, powered) ==
    IF Cardinality(DeadPorts(ports, powered)) = 1
    THEN CHOOSE port \in DeadPorts(ports, powered) : TRUE
    ELSE 0

\* "Too many serial devices disappeared" is logged
SerialWarns(ports, powered) == Cardinality(DeadPorts(ports, powered)) > 1

\* the list without identity n
WithoutNet(configs, n) == SelectSeq(configs, LAMBDA x : x # n)

\* variant: the channels cut earlier have power again during the probe
OnlyThisCut(powered, channel) == Channels \ {channel}

\* cutter.disconnect(); no cutter is connected again within the loop
PoweredAfterCut(powered, channel) == powered \ {channel}

\* the device record built for one cutter once its channel has lost power;
\* netDead, netWarned, serDead, serWarned record what the step saw and logged,
\* off the channels without power while it probed, netGone and serGone the
\* signals it found silent
DeviceConfiguration(channel, configs, ports, powered) ==
    [channel   |-> channel,
     id        |-> FirstDeadNet(configs, powered),
     model     |-> IF FirstDeadNet(configs, powered) = 0 THEN ""
                   ELSE tModel[FirstDeadNet(configs, powered)],
     serial    |-> SerialChoice(ports, powered),
     netDead   |-> Len(DeadNets(configs, powered)),
     netWarned |-> NetWarns(configs, powered),
     off       |-> Channels \ powered,
     netGone   |-> Range(DeadNets(configs, powered)),
     serGone   |-> DeadPorts(ports, powered),
     serDead   |-> Cardinality(DeadPorts(ports, powered)),
     serWarned |-> SerialWarns(ports, powered)]

\* number of records with exactly this model among the first i records
SameModelUpTo(devices, i, model) ==
    Cardinality({j \in 1..i : devices[j].model = model})

\* section = device["model"].upper() + "_" + str(dev_id)
SectionOf(devices, i) ==
    <<Upper(devices[i].model), SameModelUpTo(devices, i, devices[i].model)>>

\* the positions of the records that carry a model
Modelled(devices) == {i \in 1..Len(devices) : devices[i].model # ""}

RECURSIVE AddSections(_, _, _)
\* config.add_section per record, in order; a name already present raises
AddSections(devices, i, sections) ==
    IF i > Len(devices) THEN [error |-> "", sections |-> sections]
    ELSE IF devices[i].model = "" THEN AddSections(devices, i + 1, sections)
    ELSE IF \E j \in 1..Len(sections) : sections[j] = SectionOf(devices, i)
         THEN [error |-> "DuplicateSectionError", sections |-> sections]
    ELSE AddSections(devices, i + 1, Append(sections, SectionOf(devices, i)))

InitTopo ==
    /\ blacklistFile = {}
    /\ PoolInit
    /\ ModeOff
    /\ CfgOff
    /\ RaceOff
    /\ BaseOff
    /\ ExtOff
    /\ tWire \in [Nets -> 0..NumChannels]
    /\ tSerWire \in [SerialPorts -> 0..NumChannels]
    /\ tModel \in [Nets -> ModelNames \cup {""}]
    /\ tPowered = {}
    /\ tNetConfigs = <<>>
    /\ tSerialPorts = {}
    /\ tDevices = <<>>
    /\ tNext = 0
    /\ tPc = "init"
    /\ tSections = <<>>
    /\ tDryrun \in BOOLEAN
    /\ tFile \in [state : {"absent", "old"}, sections : {<<>>}]

\* build_topology up to the loop: every cutter is connected, the devices
\* boot, and the leased identities and the active serial ports are recorded
Snapshot ==
    /\ tPc = "init"
    /\ tPowered' = Channels
    /\ tNetConfigs' = [i \in 1..NumNets |-> i]
    /\ tSerialPorts' = SerialPorts
    /\ tNext' = 1
    /\ tPc' = "cut"
    /\ UNCHANGED <<poolVars, modeVars, raceVars, baseVars, extVars, cfgVars, tWire, tSerWire, tModel,
                   tDevices, tSections, tDryrun, tFile>>

\* _get_device_configuration for the next cutter: its channel is cut and
\* stays cut, and what stopped answering is attributed to it
GetDeviceConfiguration ==
    /\ tPc = "cut"
    /\ tNext <= NumChannels
    /\ LET powered == PoweredAfterCut(tPowered, tNext)
           device == DeviceConfiguration(tNext, tNetConfigs, tSerialPorts, powered)
       IN /\ tPowered' = powered
          /\ tDevices' = Append(tDevices, device)
          /\ tNetConfigs' = WithoutNet(tNetConfigs, device.id)
          /\ tSerialPorts' = tSerialPorts \ {device.serial}
    /\ tNext' = tNext + 1
    /\ UNCHANGED <<poolVars, modeVars, raceVars, baseVars, extVars, cfgVars, tWire, tSerWire, tModel,
                   tPc, tSections, tDryrun, tFile>>

\* variant: the file is written whatever the mode
WrittenAlways(dryrun) == TRUE

\* if not self._dryrun: ... configuration.write(f)
Written(dryrun) == ~dryrun

\* the end of build_topology: _create_configuration over the collected
\* records, then the topology file is written unless this is a dry run
CreateConfiguration ==
    /\ tPc = "cut"
    /\ tNext > NumChannels
    /\ LET outcome == AddSections(tDevices, 1, <<>>)
       IN /\ tSections' = outcome.sections
          /\ tPc' = IF outcome.error = "" THEN "done" ELSE outcome.error
          /\ tFile' = IF outcome.error = "" /\ Written(tDryrun)
                      THEN [state |-> "written", sections |-> outcome.sections]
                      ELSE tFile
    /\ UNCHANGED <<poolVars, modeVars, raceVars, baseVars, extVars, cfgVars, tWire, tSerWire, tModel,
                   tPowered, tNetConfigs, tSerialPorts, tDevices, tNext, tDryrun>>

NextTopo ==
    \/ Snapshot
    \/ GetDeviceConfiguration
    \/ CreateConfiguration

SpecTopo == InitTopo /\ [][NextTopo]_vars

\* ------------------------------------------------------------------ claims

\* the step is process p finishing one lock attempt of its reserve call
AttemptStep(p) == attempts'[p] = attempts[p] + 1

\* number of entries for identity d in a sequence of (dev_id, lockfile) pairs
EntriesFor(lf, d) == Cardinality({i \in 1..Len(lf) : lf[i][1] = d})

\* number of atexit registrations of release for identity d
RegistrationsFor(q, d) == Cardinality({i \in 1..Len(q) : q[i] = d})

\* C1: of two callers reserving the one matching device, exactly one acquires
\* it in its first polling round; the other acquires nothing while the first
\* holds it, and its lock attempt made after the first has released succeeds
C1_FirstRoundWinners ==
    {p \in Procs : result[p] = "device" /\ sleeps[p] = 0}

C1_OneWinsOtherWaits ==
    /\ [](/\ Cardinality(Holders(1)) <= 1
          /\ (\A p \in Procs : attempts[p] >= 1)
               => (Cardinality(C1_FirstRoundWinners) = 1
                   /\ Cardinality({p \in Procs : result[p] = "device"}) = 1))
    /\ [][\A p \in Procs : \A q \in Procs \ {p} :
            (result[p] = "released" /\ AttemptStep(q))
            => (result'[q] = "device" /\ ret'[q] = 1)]_vars

C1_Witness ==
    \E p \in Procs : \E q \in Procs \ {p} :
        /\ result[p] = "released"
        /\ result[q] = "device" /\ ret[q] = 1
        /\ sleeps[q] >= 1

\* C2: at every moment at most one process holds a live reservation (a lock
\* obtained by a successful reserve and not yet released) of a device identity
C2_AtMostOneHolder ==
    \A d \in Devs : Cardinality(Holders(d)) <= 1

\* C3: a release of an already-released device (no entry left in _lockfiles)
\* raises no error, unlocks nothing, and does not remove the artifact of a
\* reservation another process holds on that identity, nor touch other identities
C3_SecondReleaseHarmless ==
    [][\A p \in Procs :
         (relStale[p] /\ pc[p] \in {"rel_isfile", "rel_unlink"} /\ pc'[p] # pc[p])
         => /\ result'[p] # "os_error"
            /\ \A d \in Devs :
                 (d # relDev[p] \/ \E q \in Procs \ {p} :
                                     <<d, path[d]>> \in Range(lockfiles[q]))
                 => path'[d] = path[d]]_vars

\* C5: once the holder of an identity has died without release, a lock attempt
\* on that identity by another process, made while no live process holds it,
\* acquires the device
C5_CrashFreesDevice ==
    [][\A p \in Procs :
         (AttemptStep(p) /\ idx[p] \in 1..Len(cands[p])
            /\ strand[cands[p][idx[p]]] = "stranded"
            /\ Holders(cands[p][idx[p]]) = {})
         => (result'[p] = "device" /\ ret'[p] = cands[p][idx[p]])]_vars

C5_Witness ==
    \E p \in Procs, d \in Devs :
        /\ strand[d] = "recovered"
        /\ result[p] = "device" /\ ret[p] = d
        /\ sleeps[p] >= 1
        /\ path[d] # 0 /\ lockOwner[path[d]] = p

\* C6: release of every device a process holds is registered with atexit when
\* reserve hands it out, and every exit-time release ends with the process no
\* longer holding that reservation's lock and with the artifact removed
C6_ExitReleases ==
    /\ [](\A p \in Procs, d \in Devs :
             EntriesFor(lockfiles[p], d) <= RegistrationsFor(atexitQ[p], d))
    /\ [][\A p \in Procs :
            (exiting[p] /\ pc[p] \in {"rel_isfile", "rel_unlink"} /\ pc'[p] = "atexit")
            => path'[relDev[p]] = 0]_vars
    /\ [][\A p \in Procs :
            (pc[p] = "atexit" /\ pc'[p] = "dead") => lockfiles[p] = <<>>]_vars

C6_Witness ==
    \E p \in Procs :
        /\ pc[p] = "atexit" /\ atexitQ[p] = <<>> /\ lockfiles[p] = <<>>
        /\ result[p] = "released"
        /\ \A d \in Devs : path[d] = 0

C4_BlacklistedNeverReturned ==
    \A p \in Procs :
        /\ \A i \in 1..Len(cands[p]) : cands[p][i] \notin blacklistFile
        /\ result[p] = "device" => ret[p] \notin blacklistFile
        /\ (request[p] # NoRequest /\ Range(MatchRequest(request[p])) \subseteq blacklistFile)
             => (result[p] = "config_error" /\ attempts[p] = 0 /\ sleeps[p] = 0)

\* C7: with no candidate left after matching and blacklist filtering, reserve
\* raises a configuration error at once: no lock attempt, no sleep, no timeout
C7_NoCandidatesIsConfigError ==
    \A p \in Procs :
        /\ result[p] = "config_error"
             => (cands[p] = <<>> /\ attempts[p] = 0 /\ sleeps[p] = 0 /\ elapsed[p] = 0)
        /\ (request[p] # NoRequest /\ cands[p] = <<>>)
             => (result[p] = "config_error" /\ pc[p] = "idle")

C7_Witness ==
    \E p \in Procs :
        /\ result[p] = "config_error"
        /\ timeout[p] > 0
        /\ MatchRequest(request[p]) # <<>>
        /\ Range(MatchRequest(request[p])) \subseteq blacklistFile

\* C9: when no verification succeeds, mode entry makes exactly N attempts, each
\* with power cycle, injection, identity wait, then raises the device error; it
\* never starts attempt N+1 and returns normally only after a verification
C9_ExactlyNAttempts ==
    /\ mAttempt <= RetryAttempts(mVariant)
    /\ mPc = "device_error"
         => /\ mAttempt = RetryAttempts(mVariant)
            /\ mOkAt = 0
            /\ mErrors = 0
                 => /\ mCycles = RetryAttempts(mVariant)
                    /\ mWaits = RetryAttempts(mVariant)
                    /\ mInjects = IF HasInjector(mVariant, mKb)
                                  THEN RetryAttempts(mVariant) ELSE 0
    /\ mPc = "returned" => (mOkAt # 0 /\ mOkAt = mAttempt)

C9_Witness ==
    /\ mPc = "device_error"
    /\ mVerifies = RetryAttempts(mVariant)
    /\ mCycles = RetryAttempts(mVariant)
    /\ mErrors = 0

\* C10: when the first attempt gets an identity and verifies the mode, mode
\* entry returns after one power cycle and one injection, without a second attempt
C10_FirstAttemptSuccess ==
    mOkAt = 1
      => /\ mPc = "returned"
         /\ mAttempt = 1
         /\ mCycles = 1
         /\ mWaits = 1
         /\ mVerifies = 1
         /\ mInjects = IF HasInjector(mVariant, mKb) THEN 1 ELSE 0

C10_Witness ==
    /\ mOkAt = 1
    /\ mPc = "returned"
    /\ mVariant = "core"
    /\ mInjects = 1
    /\ mPower = "on"

\* C11: mode entry returns only when, in one and the same attempt, the identity
\* wait produced an identity and verification confirmed the mode; every failed
\* attempt (no identity, or identity but failed verification) is logged and is
\* followed by a fresh attempt from the power cycle while attempts remain
C11_SuccessOnlyVerifiedFailuresLogged ==
    /\ [](mPc = "returned" => (mIp # 0 /\ mOkAt = mAttempt /\ mOkAt # 0))
    /\ [][(mPc \in {"check", "verify"} /\ mPc' = "loop") => mLogged']_vars
    /\ [][(mPc = "loop" /\ mAttempt < RetryAttempts(mVariant))
            => (mPc' = "detach" /\ mAttempt' = mAttempt + 1)]_vars

\* C12: whenever no process is in the middle of reserve or release, the lock
\* artifact of an identity exists exactly when some process holds a reservation
\* of that identity
C12_ArtifactIffHeld ==
    (\A p \in Procs : pc[p] \in {"idle", "dead"})
      => \A d \in Devs : (path[d] # 0) <=> (Holders(d) # {})

\* the value of option k in the most specific of the three layers that has it
MostSpecific(k, platformEntry, catalogEntry, deviceEntry) ==
    IF k \in DOMAIN deviceEntry THEN deviceEntry[k]
    ELSE IF k \in DOMAIN catalogEntry THEN catalogEntry[k]
    ELSE platformEntry[k]

\* the options that some layer of unit i defines
LayerKeys(i) ==
    DOMAIN cPlatform["p"] \cup DOMAIN cCatalog["m"] \cup DOMAIN cTopology[i].entry

\* the runs that returned a descriptor list
GoodRuns == {r \in 1..Len(cResults) : cResults[r].error = "none"}

\* C16 as stated: in every resolved descriptor every option defined in some
\* layer has the value of the most specific layer, unit over catalog over platform
C16_MostSpecificLayerWins ==
    \A r \in GoodRuns : \A i \in 1..Len(cResults[r].configs) :
        \A k \in LayerKeys(i) :
            cResults[r].configs[i].settings[k]
              = MostSpecific(k, cPlatform["p"], cCatalog["m"], cTopology[i].entry)

\* C16 amended: the precedence holds for every option except name and
\* serial_log_name; those two are always the lower-cased section title and the
\* configured log name, whatever the layers say
C16_MostSpecificExceptNameAndLog ==
    \A r \in GoodRuns : \A i \in 1..Len(cResults[r].configs) :
        LET settings == cResults[r].configs[i].settings
        IN /\ \A k \in LayerKeys(i) \ {"name", "serial_log_name"} :
                settings[k] = MostSpecific(k, cPlatform["p"], cCatalog["m"],
                                           cTopology[i].entry)
           /\ settings["name"] = Lower(cTopology[i].title)
           /\ settings["serial_log_name"] = SerialLogName

C16_Witness ==
    /\ GoodRuns # {}
    /\ "x" \in DOMAIN cPlatform["p"] \cap DOMAIN cCatalog["m"] \cap DOMAIN cTopology[1].entry
    /\ "name" \in DOMAIN cTopology[1].entry
    /\ cResults[1].configs[1].settings["x"] = "3"
    /\ cResults[1].configs[1].settings["name"] # "3"

\* C17: a unit whose model the catalog lacks, a catalog entry whose platform
\* the platform file lacks, and an empty topology each end the resolution with
\* AFTConfigurationError and without descriptors
C17_MissingEntryIsConfigError ==
    \A r \in 1..Len(cResults) :
        (\/ cTopology = <<>>
         \/ "m" \notin DOMAIN cCatalog
         \/ "p" \notin DOMAIN cPlatform)
        => (cResults[r].error = "AFTConfigurationError" /\ cResults[r].configs = <<>>)

C19_NamesUnique ==
    \A r \in GoodRuns :
        \A i \in 1..Len(cResults[r].configs) : \A j \in 1..Len(cResults[r].configs) :
            i # j => cResults[r].configs[i].name # cResults[r].configs[j].name

\* the topology run has ended, with a configuration or with an error
TopoEnded == tPc \in {"done", "DuplicateSectionError"}

\* every channel powers exactly one network identity, and its model is known
OneKnownNetPerChannel ==
    \A c \in Channels :
        /\ Cardinality({n \in Nets : tWire[n] = c}) = 1
        /\ \A n \in Nets : tWire[n] = c => tModel[n] # ""

\* C13: when each of the N channels powers exactly one distinct network
\* identity of known model, discovery ends with exactly N entries under
\* pairwise distinct names, the entry of each channel carrying that channel's
\* cutter configuration and the identity wired to it
C13_OneEntryPerChannel ==
    (TopoEnded /\ OneKnownNetPerChannel)
      => /\ tPc = "done"
         /\ Len(tSections) = NumChannels
         /\ \A i, j \in 1..Len(tSections) : i # j => tSections[i] # tSections[j]
         /\ \A c \in Channels :
                /\ tDevices[c].channel = c
                /\ tDevices[c].id # 0
                /\ tWire[tDevices[c].id] = c

\* C14: a cut after which more than one previously live signal of one class
\* (network identity, serial port) has stopped assigns no signal of that
\* class to the device and logs a warning
C14_AmbiguousCutAssignsNothing ==
    \A i \in 1..Len(tDevices) :
        /\ tDevices[i].netDead > 1 => (tDevices[i].id = 0 /\ tDevices[i].netWarned)
        /\ tDevices[i].serDead > 1 => (tDevices[i].serial = 0 /\ tDevices[i].serWarned)

\* C20: the k-th discovered unit of a model is named by that model and the
\* suffix k, counted per model from 1, and the names are pairwise distinct
C20_NamedByModelAndOrdinal ==
    TopoEnded
      => /\ tPc = "done"
         /\ Len(tSections) = Cardinality(Modelled(tDevices))
         /\ \A i \in Modelled(tDevices) :
                \E j \in 1..Len(tSections) :
                    /\ tSections[j][1] = Upper(tDevices[i].model)
                    /\ tSections[j][2] = SameModelUpTo(tDevices, i, tDevices[i].model)
         /\ \A i, j \in 1..Len(tSections) : i # j => tSections[i] # tSections[j]

\* mode entry has ended: it returned or an error went to the caller
ModeEnded == mPc \in {"returned", "device_error", "propagated", "interrupted"}

C21_FileWrittenOnlyOnSave ==
    [][tFile' # tFile
         => /\ ~tDryrun
            /\ tNext > NumChannels
            /\ Len(tDevices) = NumChannels
            /\ tFile'.state = "written"]_vars

\* a save run over two modelled units has written both sections
C21_Witness ==
    /\ ~tDryrun
    /\ tPc = "done"
    /\ tFile.state = "written"
    /\ Len(tFile.sections) >= 2

\* C22: while discovery probes for a channel, that channel is the only one
\* without power
C22_OnlyProbedChannelOff ==
    \A i \in 1..Len(tDevices) : tDevices[i].off = {tDevices[i].channel}

\* C22 as the code has it: while discovery probes for the k-th channel,
\* exactly the channels cut so far are without power, so every trial differs
\* from the trial before it by one channel, and no channel gets power again
C22_CutChannelsStayOff ==
    /\ \A i \in 1..Len(tDevices) :
          tDevices[i].off = {tDevices[j].channel : j \in 1..i}
    /\ tPc \in {"cut", "done", "DuplicateSectionError"}
          => tPowered = Channels \ {tDevices[j].channel : j \in 1..Len(tDevices)}

\* the second channel has been probed with the first still off
C22_Witness ==
    /\ Len(tDevices) >= 2
    /\ tDevices[2].off = {1, 2}

\* C30: a signal found silent at one cut and not attributed to that channel's
\* unit is never attributed to the unit of a channel cut later, and when such
\* a signal is left over, a later channel whose cut silences exactly one
\* signal of a class of its own still gets that signal
C30_LeftoverSignalsStayUnassigned ==
    \A i, j \in 1..Len(tDevices) :
        i < j =>
          /\ \A n \in tDevices[i].netGone \ {tDevices[i].id} :
                /\ tDevices[j].id # n
                /\ \A m \in Nets :
                      {x \in Nets : tWire[x] = tDevices[j].channel} = {m}
                         => tDevices[j].id = m
          /\ \A port \in tDevices[i].serGone \ {tDevices[i].serial} :
                /\ tDevices[j].serial # port
                /\ \A q \in SerialPorts :
                      {x \in SerialPorts : tSerWire[x] = tDevices[j].channel} = {q}
                         => tDevices[j].serial = q

\* C24: within mode entry power changes only through a full power cycle: the
\* channel is disconnected, the settle delay elapses, the channel is
\* connected; no connect comes without the disconnect and the delay right
\* before it in the same attempt
C24_PowerOnlyByFullCycle ==
    /\ [][mPower' # mPower
            => \/ (mPc = "detach" /\ mPower' = "off")
               \/ (mPc = "attach" /\ mPc' = "inject" /\ mPower' = "on")]_vars
    /\ [][(mPc # "attach" /\ mPc' = "attach")
            => (mPc = "delay" /\ mPower = "off" /\ mAttempt' = mAttempt)]_vars
    /\ [][(mPc # "delay" /\ mPc' = "delay")
            => (mPc = "detach" /\ mPower' = "off" /\ mAttempt' = mAttempt)]_vars
    /\ [](mCycles <= mAttempt)

\* the second attempt has completed its power cycle
C24_Witness ==
    /\ mAttempt = 2
    /\ mCycles = 2
    /\ mPc = "inject"
    /\ mPower = "on"

\* C25: the wait for a responsive identity makes at most boot timeout /
\* polling interval probes, each further round being one counted probe; it
\* returns the identity at the first probe that is answered, and it returns
\* nothing, without raising, only when the probes are used up
C25_WaitBoundedReturnsNone ==
    /\ [](mProbes <= BootTimeout \div IpPollingInterval)
    /\ [][(mPc = "wait" /\ mPc' = "wait")
            => (mProbes' = mProbes + 1 /\ mIp' = mIp)]_vars
    /\ [][(mPc = "wait" /\ mPc' = "check" /\ mIp' # 0)
            => mProbes < BootTimeout \div IpPollingInterval]_vars
    /\ [][(mPc = "wait" /\ mPc' = "check" /\ mIp' = 0)
            => (mProbes = BootTimeout \div IpPollingInterval /\ mErrors' = mErrors)]_vars

\* every probe of the wait went unanswered
C25_Witness ==
    /\ mPc = "wait"
    /\ mProbes = BootTimeout \div IpPollingInterval

\* C26: for a device without a keyboard emulator the injection step of every
\* attempt is skipped with one logged warning and the attempt goes on to the
\* identity wait; nothing is ever injected, and the missing capability alone
\* does not keep the mode entry from running
C26_NoInjectorSkipsWithWarning ==
    /\ [](~mKb => mInjects = 0)
    /\ [][(~mKb /\ mPc = "inject" /\ mPc' = "wait")
            => (mKbWarnings' = mKbWarnings + 1 /\ mInjects' = mInjects
                /\ mErrors' = mErrors /\ mAttempt' = mAttempt)]_vars
    /\ [](~mKb => mPc # "KeyError")

\* the devices a request selects from the descriptor table
Selected(req) ==
    IF req.kind = "model" THEN {d \in Devs : ModelOf(d) = req.arg}
    ELSE IF req.kind = "name" THEN {d \in Devs : d = req.arg}
    ELSE {}

\* C27: reserve constructs the cutter and Device objects only for the
\* candidate whose lock it has acquired
C27_BuiltOnlyForLockedCandidate ==
    \A p \in Procs :
        built[p] \subseteq (IF result[p] = "device" THEN {ret[p]} ELSE {})

\* C27 as the code has it: reserve constructs the objects for every
\* descriptor the request selects, blacklisted or not, before it filters and
\* before it tries any lock; polling constructs nothing more, and the device
\* returned is one of those built at the start
C27_BuiltForEveryMatchBeforeLocking ==
    /\ [](\A p \in Procs :
             /\ built[p] = Selected(request[p])
             /\ Range(cands[p]) \subseteq built[p]
             /\ result[p] = "device" => ret[p] \in built[p])
    /\ [][\A p \in Procs :
             pc[p] \in {"open", "flock", "sleep"}
                => (built'[p] = built[p] \/ pc'[p] \in {"atexit", "dead"})]_vars

\* objects were built for a device and the call ended without returning one
C27_Witness ==
    \E p \in Procs :
        /\ result[p] \in {"timeout_error", "config_error"}
        /\ built[p] # {}

\* C28: blacklist filtering is not atomic with lock acquisition: the
\* candidates filtered at the start of a reserve call stay its candidates
\* for as long as it polls, whatever is blacklisted meanwhile, and a lock
\* attempt that is granted returns its candidate, blacklisted or not
C28_BlacklistNotRecheckedWhilePolling ==
    /\ [][\A p \in Procs :
             (pc[p] \in {"open", "flock", "sleep"} /\ pc'[p] \in {"open", "flock", "sleep"})
                => cands'[p] = cands[p]]_vars
    /\ [][\A p \in Procs :
             (pc[p] = "flock" /\ AttemptStep(p) /\ lockOwner[fd[p]] = 0)
                => (result'[p] = "device" /\ ret'[p] = cands[p][idx[p]])]_vars

\* a device blacklisted while the call was polling for it has been returned
C28_Witness ==
    \E p \in Procs :
        /\ result[p] = "device"
        /\ <<p, ret[p]>> \in blDuring
        /\ ret[p] \in blacklistFile


\* ---------------------------------------------------------------------------
\* Topology builder: the baseline of build_topology step by step, with the
\* processes it starts (src/tools/topology_builder.py).
\* ---------------------------------------------------------------------------

\* the signal classes probed by a finder process
FinderClasses == {"pem", "serial"}

\* the ttyUSB device files a finder starts one process for
UsbFiles == SerialPorts

\* variant: nothing is started between connecting the cutters and the settle sleep
SettleAfterConnect == "settle"

\* build_topology: after the cutters are connected, the PEM finder is started
AfterConnect == "pem_start"

\* Queue.get() without a timeout returns only once the finder has put its result
QueueGet(state) == state = "reported"

\* the finder's loop body: join(1), then terminate() if is_alive()
JoinOrTerminate(state) == IF state \in {"running", "hung"} THEN "terminated" ELSE state

\* variant: every device file is a potential serial port
AllFilesPotential(files, pem) == files

\* potential_serial_ports = set(device_files).difference(self._pem_ports)
PotentialSerialPorts(files, pem) == files \ pem

\* the list the finder puts on its queue: the files whose process had exited
\* when it was joined
ActivePorts(c) == {u \in bFiles[c] : bWorkers[c][u] = "finished"}

\* dead_ports = set(ports).difference(active); a single dead port is removed
WithoutDeadPort(ports, active) ==
    IF Cardinality(ports \ active) = 1 THEN ports \cap active ELSE ports

\* the device files the processes of class c have open: pem_main while it
\* runs, the serial finder from serial.Serial(...) until it closes them after
\* the join
OpenFiles(c) ==
    IF c = "serial"
    THEN IF bFinder[c] = "waiting" THEN bFiles[c] ELSE {}
    ELSE {u \in UsbFiles : bWorkers[c][u] \in {"running", "hung"}}

\* __init__ has run and the cutters are known
InitBaseline ==
    /\ blacklistFile = {}
    /\ PoolInit
    /\ ModeOff
    /\ CfgOff
    /\ TopoOff
    /\ RaceOff
    /\ ExtOff
    /\ bPc = "start"
    /\ bLog = <<>>
    /\ bFinder = [c \in FinderClasses |-> "none"]
    /\ bWorkers = [c \in FinderClasses |-> [u \in UsbFiles |-> "none"]]
    /\ bEdison = "none"
    /\ bPemPorts = {}
    /\ bSerialPorts = {}
    /\ bFiles = [c \in FinderClasses |-> {}]
    /\ bTrial = 0

\* for cutter in cutters: cutter.disconnect()
DisconnectAll ==
    /\ bPc = "start"
    /\ bPc' = "all_off"
    /\ bLog' = Append(bLog, "disconnect_all")
    /\ UNCHANGED <<poolVars, modeVars, cfgVars, topoVars, raceVars, extVars, bPorts, bFinder, bWorkers, bEdison>>

\* sleep(5); self._clear_dmesg()
ClearDmesg ==
    /\ bPc = "all_off"
    /\ bPc' = "cleared"
    /\ bLog' = Append(bLog, "clear_dmesg")
    /\ UNCHANGED <<poolVars, modeVars, cfgVars, topoVars, raceVars, extVars, bPorts, bFinder, bWorkers, bEdison>>

\* for cutter in cutters: cutter.connect()
ConnectAll ==
    /\ bPc = "cleared"
    /\ bPc' = AfterConnect
    /\ bLog' = Append(bLog, "connect_all")
    /\ UNCHANGED <<poolVars, modeVars, cfgVars, topoVars, raceVars, extVars, bPorts, bFinder, bWorkers, bEdison>>

\* _find_active_pem_ports_from / _find_active_serial_ports_from: start the finder
StartFinder(c) ==
    /\ bPc = c \o "_start"
    /\ bFinder[c] = "none"
    /\ bFinder' = [bFinder EXCEPT ![c] = "sleeping"]
    /\ bFiles' = [bFiles EXCEPT ![c] = IF c = "pem" THEN UsbFiles
                                       ELSE PotentialSerialPorts(UsbFiles, bPemPorts)]
    /\ bWorkers' = [bWorkers EXCEPT ![c] = [u \in UsbFiles |-> "none"]]
    /\ bPc' = IF c = "pem" THEN "settle" ELSE "serial_get"
    /\ bLog' = Append(bLog, c \o "_probe")
    /\ UNCHANGED <<poolVars, modeVars, cfgVars, topoVars, raceVars, extVars,
                   bPemPorts, bSerialPorts, bTrial, bEdison>>

\* sleep(120)
Settle ==
    /\ bPc = "settle"
    /\ bPc' = "net"
    /\ bLog' = Append(bLog, "settle")
    /\ UNCHANGED <<poolVars, modeVars, cfgVars, topoVars, raceVars, extVars, bPorts, bFinder, bWorkers, bEdison>>

\* _get_edison_configs: start a connection_opener process
StartEdison ==
    /\ bPc = "net"
    /\ bEdison' = "running"
    /\ bPc' = "edison_join"
    /\ bLog' = Append(bLog, "net_probe")
    /\ UNCHANGED <<poolVars, modeVars, cfgVars, topoVars, raceVars, extVars, bPorts, bFinder, bWorkers>>

\* connection_opener: puts its result and exits, raises and exits, or hangs
EdisonOutcome(o) ==
    /\ bEdison = "running"
    /\ bEdison' = o
    /\ UNCHANGED <<poolVars, modeVars, cfgVars, topoVars, raceVars, extVars, bPorts, bPc, bLog, bFinder, bWorkers>>

\* p.join(): returns once the process has exited
JoinEdison ==
    /\ bPc = "edison_join"
    /\ bEdison \in {"reported", "dead"}
    /\ bPc' = "edison_get"
    /\ UNCHANGED <<poolVars, modeVars, cfgVars, topoVars, raceVars, extVars, bPorts, bLog, bFinder, bWorkers, bEdison>>

\* ip_queue.get(), then the PC-like configurations, back in build_topology
GetEdison ==
    /\ bPc = "edison_get"
    /\ QueueGet(bEdison)
    /\ bPc' = "pem_get"
    /\ UNCHANGED <<poolVars, modeVars, cfgVars, topoVars, raceVars, extVars, bPorts, bLog, bFinder, bWorkers, bEdison>>

\* the finder: sleep(10), then one process per ttyUSB file
FinderSpawn(c) ==
    /\ bFinder[c] = "sleeping"
    /\ bFinder' = [bFinder EXCEPT ![c] = "waiting"]
    /\ bWorkers' = [bWorkers EXCEPT ![c] =
                        [u \in UsbFiles |-> IF u \in bFiles[c] THEN "running" ELSE "none"]]
    /\ UNCHANGED <<poolVars, modeVars, cfgVars, topoVars, raceVars, extVars, bPorts, bPc, bLog, bEdison>>

\* the finder raises before queue.put (a missing configuration key, a port
\* that cannot be opened) and exits
FinderDies(c) ==
    /\ bFinder[c] = "sleeping"
    /\ bFinder' = [bFinder EXCEPT ![c] = "dead"]
    /\ UNCHANGED <<poolVars, modeVars, cfgVars, topoVars, raceVars, extVars, bPorts, bPc, bLog, bWorkers, bEdison>>

\* pem_main / checker on one device file: returns, or blocks on the port
WorkerOutcome(c, u, o) ==
    /\ bFinder[c] = "waiting"
    /\ bWorkers[c][u] = "running"
    /\ bWorkers' = [bWorkers EXCEPT ![c][u] = o]
    /\ UNCHANGED <<poolVars, modeVars, cfgVars, topoVars, raceVars, extVars, bPorts, bPc, bLog, bFinder, bEdison>>

\* the finder after sleep(wait_duration): join(1) each process, terminate the
\* ones still alive, queue.put the others' device files
FinderCollect(c) ==
    /\ bFinder[c] = "waiting"
    /\ bWorkers' = [bWorkers EXCEPT ![c] = [u \in UsbFiles |-> JoinOrTerminate(bWorkers[c][u])]]
    /\ bFinder' = [bFinder EXCEPT ![c] = "reported"]
    /\ UNCHANGED <<poolVars, modeVars, cfgVars, topoVars, raceVars, extVars, bPorts, bPc, bLog, bEdison>>

\* pem_results.get() / serial_results.get()
CollectResult(c) ==
    /\ bPc = c \o "_get"
    /\ QueueGet(bFinder[c])
    /\ bPc' = IF c = "pem" THEN "serial_start" ELSE "baseline"
    /\ bLog' = Append(bLog, c \o "_result")
    /\ bPemPorts' = IF c = "pem" THEN ActivePorts(c) ELSE bPemPorts
    /\ bSerialPorts' = IF c = "serial" THEN ActivePorts(c) ELSE bSerialPorts
    /\ bFinder' = [bFinder EXCEPT ![c] = "none"]
    /\ UNCHANGED <<poolVars, modeVars, cfgVars, topoVars, raceVars, extVars,
                   bFiles, bTrial, bWorkers, bEdison>>

\* _get_device_configuration: cutter.disconnect(), then both finders are
\* started, the PEM one over self._pem_ports, the serial one over
\* self._serial_ports
TrialStart ==
    /\ bPc = "baseline"
    /\ bTrial < NumChannels
    /\ bTrial' = bTrial + 1
    /\ bFinder' = [c \in FinderClasses |-> "sleeping"]
    /\ bFiles' = [c \in FinderClasses |-> IF c = "pem" THEN bPemPorts ELSE bSerialPorts]
    /\ bWorkers' = [c \in FinderClasses |-> [u \in UsbFiles |-> "none"]]
    /\ bPc' = "trial_serial_get"
    /\ UNCHANGED <<poolVars, modeVars, cfgVars, topoVars, raceVars, extVars,
                   bPemPorts, bSerialPorts, bLog, bEdison>>

\* _set_device_serial_port, then _set_device_pem_port: take the finder's
\* result and drop the port that died if it is the only one
CollectTrial(c) ==
    /\ bPc = "trial_" \o c \o "_get"
    /\ QueueGet(bFinder[c])
    /\ bPemPorts' = IF c = "pem" THEN WithoutDeadPort(bPemPorts, ActivePorts(c)) ELSE bPemPorts
    /\ bSerialPorts' = IF c = "serial" THEN WithoutDeadPort(bSerialPorts, ActivePorts(c))
                       ELSE bSerialPorts
    /\ bFinder' = [bFinder EXCEPT ![c] = "none"]
    /\ bPc' = IF c = "serial" THEN "trial_pem_get" ELSE "baseline"
    /\ UNCHANGED <<poolVars, modeVars, cfgVars, topoVars, raceVars, extVars,
                   bFiles, bTrial, bLog, bWorkers, bEdison>>

NextBaseline ==
    \/ DisconnectAll
    \/ ClearDmesg
    \/ ConnectAll
    \/ \E c \in FinderClasses : StartFinder(c)
    \/ Settle
    \/ StartEdison
    \/ \E o \in {"reported", "dead", "hung"} : EdisonOutcome(o)
    \/ JoinEdison
    \/ GetEdison
    \/ \E c \in FinderClasses : FinderSpawn(c)
    \/ \E c \in FinderClasses : FinderDies(c)
    \/ \E c \in FinderClasses, u \in UsbFiles, o \in {"finished", "hung"} : WorkerOutcome(c, u, o)
    \/ \E c \in FinderClasses : FinderCollect(c)
    \/ \E c \in FinderClasses : CollectResult(c)
    \/ TrialStart
    \/ \E c \in FinderClasses : CollectTrial(c)

\* every process that can take a step eventually takes one
SpecBaseline == InitBaseline /\ [][NextBaseline]_vars /\ WF_vars(NextBaseline)

\* position of event e in the log, 0 when it has not happened
LogPos(e) ==
    IF \E i \in 1..Len(bLog) : bLog[i] = e
    THEN CHOOSE i \in 1..Len(bLog) : bLog[i] = e
    ELSE 0

\* e1 happened, and before e2 if e2 happened
Before(e1, e2) == LogPos(e2) # 0 => (LogPos(e1) # 0 /\ LogPos(e1) < LogPos(e2))


\* the probes that make up the baseline
BaselineProbes == {"pem_probe", "net_probe", "serial_probe"}

\* C23 as stated: the baseline is taken after all channels were powered off,
\* the kernel ring buffer cleared, all channels powered on and the settle
\* time elapsed, in this order, and no baseline probe of any signal class
\* starts before the settle time has elapsed.
C23_NoProbeBeforeSettle ==
    /\ Before("disconnect_all", "clear_dmesg")
    /\ Before("clear_dmesg", "connect_all")
    /\ Before("connect_all", "settle")
    /\ \A e \in BaselineProbes : Before("settle", e)

\* C23, amended: power off, clearing, power on and settling happen in this
\* order; the PEM finder is started once every channel is on and before the
\* settle time, and its result is taken after it; the network and the serial
\* probes start after the settle time, the serial one after the PEM result;
\* the baseline is complete only after all of this.
C23_OnlyPemProbeBeforeSettle ==
    /\ Before("disconnect_all", "clear_dmesg")
    /\ Before("clear_dmesg", "connect_all")
    /\ Before("connect_all", "pem_probe")
    /\ Before("pem_probe", "settle")
    /\ Before("settle", "net_probe")
    /\ Before("net_probe", "pem_result")
    /\ Before("pem_result", "serial_probe")
    /\ Before("serial_probe", "serial_result")
    /\ bPc = "baseline" => LogPos("serial_result") # 0

C23_Witness ==
    /\ bPc = "baseline"
    /\ LogPos("pem_probe") < LogPos("settle")
    /\ LogPos("settle") < LogPos("pem_result")

\* C29: every probe process that discovery started is waited on with a
\* timeout and is not left running once its result is collected, and
\* discovery always gets past collecting the results, whatever the probe
\* processes do: a process that hangs or exits without a result does not
\* block it forever.
C29_ProbesNeverBlockDiscovery ==
    /\ [](\A c \in FinderClasses : bFinder[c] = "reported" =>
            \A u \in bFiles[c] : bWorkers[c][u] \in {"finished", "terminated"})
    /\ (bPc = "start") ~> (bPc = "baseline")


\* ---------------------------------------------------------------------------
\* Client: try_flash_model (src/client/devicesmanager.py).
\* ---------------------------------------------------------------------------

\* the configured devices of the requested model, in configuration order
FlashConfigs == [d \in 1..NumMachines |-> d]

\* the values --machine_retries and --flash_retries can take
RetryChoices == 0..MaxRetries

\* reserve(): the devices of the model that the blacklist file does not list
FlashCandidates(file) == RemoveBlacklisted(FlashConfigs, file)

\* _do_reserve: the candidates whose lock another open file holds
FlashLocked(held, busy) == held \cup busy

\* _do_reserve goes through the candidates in order and returns the first it can lock
FirstFree(devices, locked) ==
    LET free == {i \in 1..Len(devices) : devices[i] \notin locked}
    IN  IF free = {} THEN 0
        ELSE devices[CHOOSE i \in free : \A j \in free : i <= j]

\* variant: the last failure of a machine is handled like any other
FlashNeverExhausted(args, attempt) == FALSE

\* (flash_retries - flash_attempt) == 0
FlashExhausted(args, attempt) == args.flash_retries - attempt = 0

\* try_flash_model has been called; other callers may hold some devices
InitFlash ==
    /\ blacklistFile \in SUBSET Range(FlashConfigs)
    /\ PoolInit
    /\ ModeOff
    /\ CfgOff
    /\ TopoOff
    /\ RaceOff
    /\ BaseOff
    /\ RecOff
    /\ HostOff
    /\ fPc = "machine_loop"
    /\ fArgs \in [machine_retries : RetryChoices, flash_retries : RetryChoices, noflash : BOOLEAN]
    /\ fMachineAttempt = 0
    /\ fFlashAttempt = 0
    /\ fDevice = 0
    /\ fHeld = {}
    /\ fBusy \in SUBSET Range(FlashConfigs)
    /\ fLog = <<>>

\* while machine_attempt < machine_retries: machine_attempt += 1
MachineLoop ==
    /\ fPc = "machine_loop"
    /\ IF fMachineAttempt < fArgs.machine_retries
       THEN /\ fMachineAttempt' = fMachineAttempt + 1
            /\ fPc' = "reserve"
       ELSE /\ fPc' = "returned_none"
            /\ UNCHANGED fMachineAttempt
    /\ UNCHANGED <<poolVars, modeVars, cfgVars, topoVars, raceVars, baseVars, notFlash,
                   fArgs, fFlashAttempt, fDevice, fHeld, fBusy, fLog>>

\* device = self.reserve(): filter with the blacklist file as it is now, then
\* poll the candidates until one is locked or the timeout has passed
FlashReserve ==
    /\ fPc = "reserve"
    /\ LET devices == FlashCandidates(blacklistFile)
           d == FirstFree(devices, FlashLocked(fHeld, fBusy))
       IN  IF Len(devices) = 0
           THEN /\ fPc' = "configuration_error"
                /\ UNCHANGED <<fDevice, fHeld, fLog, fFlashAttempt>>
           ELSE IF d = 0
           THEN /\ fPc' = "timeout_error"
                /\ UNCHANGED <<fDevice, fHeld, fLog, fFlashAttempt>>
           ELSE /\ fDevice' = d
                /\ fHeld' = fHeld \cup {d}
                /\ fLog' = Append(fLog, [ev |-> "reserve", dev |-> d])
                /\ fFlashAttempt' = 0
                /\ fPc' = IF fArgs.noflash THEN "returned" ELSE "flash_loop"
    /\ UNCHANGED <<poolVars, modeVars, cfgVars, topoVars, raceVars, baseVars, notFlash,
                   fArgs, fMachineAttempt, fBusy>>

\* while flash_attempt < flash_retries: flash_attempt += 1
FlashLoop ==
    /\ fPc = "flash_loop"
    /\ IF fFlashAttempt < fArgs.flash_retries
       THEN /\ fFlashAttempt' = fFlashAttempt + 1
            /\ fPc' = "write_image"
       ELSE /\ fPc' = "machine_loop"
            /\ UNCHANGED fFlashAttempt
    /\ UNCHANGED <<poolVars, modeVars, cfgVars, topoVars, raceVars, baseVars, notFlash,
                   fArgs, fMachineAttempt, fDevice, fHeld, fBusy, fLog>>

\* device.write_image(args.file_name): returns, raises, or the operator interrupts
WriteImage(outcome) ==
    /\ fPc = "write_image"
    /\ fPc' = CASE outcome = "ok" -> "returned"
                [] outcome = "interrupt" -> "interrupted"
                [] OTHER -> "except"
    /\ fLog' = IF outcome = "error"
               THEN Append(fLog, [ev |-> "fail", dev |-> fDevice])
               ELSE fLog
    /\ UNCHANGED <<poolVars, modeVars, cfgVars, topoVars, raceVars, baseVars, notFlash,
                   fArgs, fMachineAttempt, fFlashAttempt, fDevice, fHeld, fBusy>>

\* except: after the last attempt on this machine blacklist it, release it and
\* go on with another machine or re-raise; otherwise try the machine again
FlashExcept ==
    /\ fPc = "except"
    /\ IF FlashExhausted(fArgs, fFlashAttempt)
       THEN /\ blacklistFile' = BlacklistAdded(blacklistFile, fDevice)
            /\ fHeld' = fHeld \ {fDevice}
            /\ fLog' = fLog \o <<[ev |-> "blacklist", dev |-> fDevice],
                                 [ev |-> "release", dev |-> fDevice]>>
            /\ fPc' = IF fMachineAttempt < fArgs.machine_retries
                      THEN "flash_loop"
                      ELSE "raised"
       ELSE /\ fPc' = "flash_loop"
            /\ UNCHANGED <<blacklistFile, fHeld, fLog>>
    /\ UNCHANGED <<poolButBlacklist, modeVars, cfgVars, topoVars, raceVars, baseVars, notFlash,
                   fArgs, fMachineAttempt, fFlashAttempt, fDevice, fBusy>>

\* another process locks a free device or releases the one it holds
OtherCaller(d) ==
    /\ fPc \in {"machine_loop", "reserve", "flash_loop", "write_image", "except"}
    /\ d \notin fHeld
    /\ fBusy' = IF d \in fBusy THEN fBusy \ {d} ELSE fBusy \cup {d}
    /\ UNCHANGED <<poolVars, modeVars, cfgVars, topoVars, raceVars, baseVars, notFlash,
                   fPc, fArgs, fMachineAttempt, fFlashAttempt, fDevice, fHeld, fLog>>

NextFlash ==
    \/ MachineLoop
    \/ FlashReserve
    \/ FlashLoop
    \/ \E outcome \in {"ok", "error", "interrupt"} : WriteImage(outcome)
    \/ FlashExcept
    \/ \E d \in Range(FlashConfigs) : OtherCaller(d)

SpecFlash == InitFlash /\ [][NextFlash]_vars


\* positions of the reservations in the log
ReserveAt == {i \in 1..Len(fLog) : fLog[i].ev = "reserve"}

\* the log from reservation j up to the next reservation or the end
SegmentEnd(j) ==
    LET later == {i \in ReserveAt : i > j}
    IN  IF later = {} THEN Len(fLog)
        ELSE (CHOOSE i \in later : \A k \in later : i <= k) - 1

\* write_image failures on the machine reserved at position j
FailsAfter(j) == Cardinality({k \in (j + 1)..SegmentEnd(j) : fLog[k].ev = "fail"})

\* the machine reserved at position j has used up its flash attempts and the
\* handler of the last failure has run
GaveUpOn(j) ==
    /\ fArgs.flash_retries > 0
    /\ FailsAfter(j) = fArgs.flash_retries
    /\ ~(SegmentEnd(j) = Len(fLog) /\ fPc = "except")

\* C31: a machine on which write_image failed flash_retries times in a row
\* is blacklisted and then released before any other machine is reserved,
\* the machine reserved next is a different one, and after the last allowed
\* machine has failed the flashing error is raised to the caller (and only
\* then).
C31_FailedMachineBlacklistedBeforeNext ==
    /\ \A j \in ReserveAt :
         GaveUpOn(j) =>
           LET e == SegmentEnd(j) IN
           /\ e >= j + 2
           /\ fLog[e - 1] = [ev |-> "blacklist", dev |-> fLog[j].dev]
           /\ fLog[e] = [ev |-> "release", dev |-> fLog[j].dev]
           /\ fLog[j].dev \in blacklistFile
           /\ e < Len(fLog) => fLog[e + 1].dev # fLog[j].dev
           /\ Cardinality({i \in ReserveAt : i <= j}) = fArgs.machine_retries => fPc = "raised"
           /\ (e = Len(fLog) /\ fPc \in {"reserve", "raised"}) => fLog[j].dev \notin fHeld
    /\ fPc = "raised" =>
         /\ fMachineAttempt = fArgs.machine_retries
         /\ \E j \in ReserveAt : SegmentEnd(j) = Len(fLog) /\ GaveUpOn(j)

C31_Witness ==
    /\ fPc = "raised"
    /\ Cardinality(ReserveAt) = 2
    /\ \A j \in ReserveAt : GaveUpOn(j)


\* ---------------------------------------------------------------------------
\* Edison recovery flasher (src/tools/edison_recovery_flasher.py).
\* ---------------------------------------------------------------------------

\* the configured devices of model "edison"; device e is named e
Edisons == 1..NumEdisons

\* the members of a set of names as a list, in configuration order
RECURSIVE NameList(_)
NameList(S) ==
    IF S = {} THEN <<>>
    ELSE LET e == CHOOSE x \in S : \A y \in S : x <= y
         IN  <<e>> \o NameList(S \ {e})

\* variant: a round that timed out keeps what it has locked
KeptOnTimeout(held, locked) == held

\* except AFTTimeoutError: for device in locked_edisons: device_manager.release(device)
ReleasedOnTimeout(held, locked) == held \ Range(locked)

\* variant: a recovered Edison stays powered
LeftOnAfterFlash == "on"

\* _recover: edison.detach() after edison.recovery_flash()
AfterRecoveryFlash == "off"

\* recover_edisons has been called
InitRecover ==
    /\ blacklistFile \in SUBSET Edisons
    /\ PoolInit
    /\ ModeOff
    /\ CfgOff
    /\ TopoOff
    /\ RaceOff
    /\ BaseOff
    /\ FlashOff
    /\ HostOff
    /\ rPc = "start"
    /\ rNames = [working |-> <<>>, blacklisted |-> <<>>]
    /\ rLocked = <<>>
    /\ rPos = 0
    /\ rHeld = {}
    /\ rBusy \in SUBSET (Edisons \ blacklistFile)
    /\ rPower \in [Edisons -> {"on", "off"}]
    /\ rFlashing = 0
    /\ rRecovered = {}
    /\ rAttempt = 1

\* the names are read; without a blacklisted Edison there is nothing to do
ReadNames ==
    /\ rPc = "start"
    /\ rNames' = [working |-> NameList(Edisons \ blacklistFile),
                  blacklisted |-> NameList(Edisons \cap blacklistFile)]
    /\ rPc' = IF Edisons \cap blacklistFile = {} THEN "nothing_to_do" ELSE "lock"
    /\ rPos' = 1
    /\ UNCHANGED <<poolVars, modeVars, cfgVars, topoVars, raceVars, baseVars, notRec,
                   rLocked, rHeld, rBusy, rPower, rFlashing, rRecovered, rAttempt>>

\* _lock_working_edisons: device_manager.reserve_specific(edison, 20) for the
\* next name, or return locked_edisons after the last
LockNext ==
    /\ rPc = "lock"
    /\ IF rPos > Len(rNames.working)
       THEN /\ rPc' = "detach_working"
            /\ UNCHANGED <<rLocked, rHeld, rPos>>
       ELSE LET e == rNames.working[rPos] IN
            IF e \in rBusy
            THEN /\ rPc' = "timed_out"
                 /\ UNCHANGED <<rLocked, rHeld, rPos>>
            ELSE /\ rHeld' = rHeld \cup {e}
                 /\ rLocked' = Append(rLocked, e)
                 /\ rPos' = rPos + 1
                 /\ UNCHANGED rPc
    /\ UNCHANGED <<poolVars, modeVars, cfgVars, topoVars, raceVars, baseVars, notRec,
                   rNames, rBusy, rPower, rFlashing, rRecovered, rAttempt>>

\* except errors.AFTTimeoutError: release what this round locked
ReleaseRound ==
    /\ rPc = "timed_out"
    /\ rHeld' = ReleasedOnTimeout(rHeld, rLocked)
    /\ rLocked' = <<>>
    /\ rPc' = "sleep"
    /\ UNCHANGED <<poolVars, modeVars, cfgVars, topoVars, raceVars, baseVars, notRec,
                   rNames, rPos, rBusy, rPower, rFlashing, rRecovered, rAttempt>>

\* sleep(120), then the next round
SleepRound ==
    /\ rPc = "sleep"
    /\ rAttempt < MaxAttempts
    /\ rAttempt' = rAttempt + 1
    /\ rPc' = "lock"
    /\ rPos' = 1
    /\ UNCHANGED <<poolVars, modeVars, cfgVars, topoVars, raceVars, baseVars, notRec,
                   rNames, rLocked, rHeld, rBusy, rPower, rFlashing, rRecovered>>

\* for edison in locked_edisons: edison.detach()
DetachWorking ==
    /\ rPc = "detach_working"
    /\ rPower' = [e \in Edisons |-> IF e \in Range(rLocked) THEN "off" ELSE rPower[e]]
    /\ rPc' = "detach_blacklisted"
    /\ UNCHANGED <<poolVars, modeVars, cfgVars, topoVars, raceVars, baseVars, notRec,
                   rNames, rLocked, rPos, rHeld, rBusy, rFlashing, rRecovered, rAttempt>>

\* for edison in blacklisted_edisons: edison.detach()
DetachBlacklisted ==
    /\ rPc = "detach_blacklisted"
    /\ rPower' = [e \in Edisons |-> IF e \in Range(rNames.blacklisted) THEN "off" ELSE rPower[e]]
    /\ rPc' = "recover"
    /\ rPos' = 1
    /\ UNCHANGED <<poolVars, modeVars, cfgVars, topoVars, raceVars, baseVars, notRec,
                   rNames, rLocked, rHeld, rBusy, rFlashing, rRecovered, rAttempt>>

\* _recover: edison.recovery_flash() power-cycles the next blacklisted Edison
\* and starts the flashing tool; after the last one the loop ends
RecoveryFlashStart ==
    /\ rPc = "recover"
    /\ IF rPos > Len(rNames.blacklisted)
       THEN /\ rPc' = "update_blacklist"
            /\ UNCHANGED <<rPower, rFlashing>>
       ELSE /\ rFlashing' = rNames.blacklisted[rPos]
            /\ rPower' = [rPower EXCEPT ![rNames.blacklisted[rPos]] = "on"]
            /\ rPc' = "flashing"
    /\ UNCHANGED <<poolVars, modeVars, cfgVars, topoVars, raceVars, baseVars, notRec,
                   rNames, rLocked, rPos, rHeld, rBusy, rRecovered, rAttempt>>

\* recovery_flash returns, or the tool cannot be run and the process exits
\* (the exit drops every lock the process holds)
RecoveryFlashEnd(outcome) ==
    /\ rPc = "flashing"
    /\ rFlashing' = 0
    /\ IF outcome = "returned"
       THEN /\ rRecovered' = rRecovered \cup {rFlashing}
            /\ rPc' = "detach_flashed"
            /\ UNCHANGED rHeld
       ELSE /\ rPc' = "exited"
            /\ rHeld' = {}
            /\ UNCHANGED rRecovered
    /\ UNCHANGED <<poolVars, modeVars, cfgVars, topoVars, raceVars, baseVars, notRec,
                   rNames, rLocked, rPos, rBusy, rPower, rAttempt>>

\* edison.detach() after the flash
DetachFlashed ==
    /\ rPc = "detach_flashed"
    /\ rPower' = [rPower EXCEPT ![rNames.blacklisted[rPos]] = AfterRecoveryFlash]
    /\ rPos' = rPos + 1
    /\ rPc' = "recover"
    /\ UNCHANGED <<poolVars, modeVars, cfgVars, topoVars, raceVars, baseVars, notRec,
                   rNames, rLocked, rHeld, rBusy, rFlashing, rRecovered, rAttempt>>

\* _update_blacklist: rewrite the file without the recovered names
UpdateBlacklist ==
    /\ rPc = "update_blacklist"
    /\ blacklistFile' = blacklistFile \ Range(rNames.blacklisted)
    /\ rPc' = "release_working"
    /\ UNCHANGED <<poolButBlacklist, modeVars, cfgVars, topoVars, raceVars, baseVars, notRec,
                   rNames, rLocked, rPos, rHeld, rBusy, rPower, rFlashing, rRecovered, rAttempt>>

\* for edison in locked_edisons: device_manager.release(edison)
ReleaseWorking ==
    /\ rPc = "release_working"
    /\ rHeld' = rHeld \ Range(rLocked)
    /\ rPc' = "done"
    /\ UNCHANGED <<poolVars, modeVars, cfgVars, topoVars, raceVars, baseVars, notRec,
                   rNames, rLocked, rPos, rBusy, rPower, rFlashing, rRecovered, rAttempt>>

\* another process locks a free working Edison and powers it as it likes, or
\* releases the one it holds
OtherEdisonCaller(e, power) ==
    /\ rPc \in {"start", "lock", "timed_out", "sleep"}
    /\ e \notin rHeld
    /\ e \notin blacklistFile
    /\ rBusy' = IF e \in rBusy THEN rBusy \ {e} ELSE rBusy \cup {e}
    /\ rPower' = [rPower EXCEPT ![e] = power]
    /\ UNCHANGED <<poolVars, modeVars, cfgVars, topoVars, raceVars, baseVars, notRec,
                   rPc, rNames, rLocked, rPos, rHeld, rFlashing, rRecovered, rAttempt>>

NextRecover ==
    \/ ReadNames
    \/ LockNext
    \/ ReleaseRound
    \/ SleepRound
    \/ DetachWorking
    \/ DetachBlacklisted
    \/ RecoveryFlashStart
    \/ \E outcome \in {"returned", "exit"} : RecoveryFlashEnd(outcome)
    \/ DetachFlashed
    \/ UpdateBlacklist
    \/ ReleaseWorking
    \/ \E e \in Edisons, power \in {"on", "off"} : OtherEdisonCaller(e, power)

SpecRecover == InitRecover /\ [][NextRecover]_vars

\* C32: _lock_working_edisons returns only when the caller holds the
\* reservation of every working Edison, and after a reservation timed out
\* everything reserved in that round has been released before the function
\* sleeps: it holds no reservation while it waits to retry.
C32_AllLockedOrNoneWhileSleeping ==
    /\ rPc = "detach_working" => (Range(rNames.working) \subseteq rHeld /\ Range(rLocked) = Range(rNames.working))
    /\ rPc = "sleep" => (rHeld = {} /\ rLocked = <<>>)

C32_Witness ==
    /\ rPc = "sleep"
    /\ Len(rNames.working) >= 2
    /\ rNames.working[1] \notin rBusy

\* some Edison is being recovery-flashed
C33_Flashing == rFlashing # 0

HostProcs == {1, 2}

\* the sections of /etc/daft/devices.cfg, all of the same device type
Duts == 1..NumDuts

\* a lock file that does not exist
NoFile == [exists |-> FALSE, lines |-> <<>>]

\* the lock file of a device that an earlier failed run blacklisted
BlacklistedFile == [exists |-> TRUE, lines |-> <<"Locked", "Blacklisted">>]

\* open(lockfile, "w+") and open(lockfile, "w"): created or truncated
Truncated == [exists |-> TRUE, lines |-> <<>>]

\* "Locked\n" written at offset 0 of what the file holds when it is closed
LockedWritten(file) ==
    [exists |-> TRUE,
     lines |-> IF file.lines = <<>> THEN <<"Locked">>
               ELSE IF Head(file.lines) = "Locked" THEN file.lines
               ELSE <<"Locked", "rest">> \o Tail(file.lines)]

\* variant: the failed run leaves the lock file as it is
LockfileUntouched(file) == file

\* open(lockfile, "a"): "Blacklisted because flashing/testing failed\n" appended
BlacklistAppended(file) == [exists |-> TRUE, lines |-> Append(file.lines, "Blacklisted")]

\* callers that are not inside main
HostIdle(p) == hPc[p] \in {"idle", "finished", "name_error", "blacklisted_error"}

\* caller p has a device and has not given it back
HostHolds(p, d) == hDev[p] = d /\ hPc[p] \in {"reserved", "release", "blacklist"}

\* lock files exist or not; an existing one is empty or holds blacklist text
InitHost ==
    /\ blacklistFile = {}
    /\ PoolInit
    /\ ModeOff
    /\ CfgOff
    /\ TopoOff
    /\ RaceOff
    /\ BaseOff
    /\ FlashOff
    /\ RecOff
    /\ hFile \in [Duts -> {NoFile, Truncated, BlacklistedFile}]
    /\ hPc = [p \in HostProcs |-> "idle"]
    /\ hArgs \in [HostProcs -> [known : BOOLEAN, noblacklisting : BOOLEAN]]
    /\ hIdx = [p \in HostProcs |-> 0]
    /\ hFound = [p \in HostProcs |-> FALSE]
    /\ hAllBl = [p \in HostProcs |-> FALSE]
    /\ hDev = [p \in HostProcs |-> 0]
    /\ hQuiet = {}

\* main calls reserve_device; the while loop starts its first round
StartHost(p) ==
    /\ hPc[p] = "idle"
    /\ hPc' = [hPc EXCEPT ![p] = IF hArgs[p].known THEN "isfile" ELSE "after_loop"]
    /\ hIdx' = [hIdx EXCEPT ![p] = 1]
    /\ hAllBl' = [hAllBl EXCEPT ![p] = TRUE]
    /\ UNCHANGED <<poolVars, modeVars, cfgVars, topoVars, raceVars, baseVars, notHost,
                   hFile, hArgs, hFound, hDev, hQuiet>>

\* dut_found = 1; write_mode = "r+" if os.path.isfile(lockfile) else "w+"
CheckIsfile(p) ==
    /\ hPc[p] = "isfile"
    /\ hFound' = [hFound EXCEPT ![p] = TRUE]
    /\ hPc' = [hPc EXCEPT ![p] = IF hFile[hIdx[p]].exists THEN "open_r" ELSE "open_w"]
    /\ UNCHANGED <<poolVars, modeVars, cfgVars, topoVars, raceVars, baseVars, notHost,
                   hFile, hArgs, hIdx, hAllBl, hDev, hQuiet>>

\* open(lockfile, write_mode)
OpenLockfile(p) ==
    /\ hPc[p] \in {"open_r", "open_w"}
    /\ hFile' = IF hPc[p] = "open_w" THEN [hFile EXCEPT ![hIdx[p]] = Truncated] ELSE hFile
    /\ hPc' = [hPc EXCEPT ![p] = "read"]
    /\ UNCHANGED <<poolVars, modeVars, cfgVars, topoVars, raceVars, baseVars, notHost,
                   hArgs, hIdx, hFound, hAllBl, hDev, hQuiet>>

\* lockfile_contents = f.read(): empty means free, "Locked\n" means taken,
\* anything else means blacklisted; a taken or blacklisted file is closed and
\* the loop goes on
ReadLockfile(p) ==
    /\ hPc[p] = "read"
    /\ LET contents == hFile[hIdx[p]].lines IN
       IF contents = <<>>
       THEN /\ hPc' = [hPc EXCEPT ![p] = "write"]
            /\ UNCHANGED <<hAllBl, hIdx>>
       ELSE /\ hAllBl' = [hAllBl EXCEPT ![p] = IF contents = <<"Locked">> THEN FALSE ELSE hAllBl[p]]
            /\ hIdx' = [hIdx EXCEPT ![p] = hIdx[p] + 1]
            /\ hPc' = [hPc EXCEPT ![p] = IF hIdx[p] < NumDuts THEN "isfile" ELSE "after_loop"]
    /\ UNCHANGED <<poolVars, modeVars, cfgVars, topoVars, raceVars, baseVars, notHost,
                   hFile, hArgs, hFound, hDev, hQuiet>>

\* f.write("Locked\n"); return device: the write reaches the file when the
\* with block closes it
WriteLocked(p) ==
    /\ hPc[p] = "write"
    /\ hFile' = [hFile EXCEPT ![hIdx[p]] = LockedWritten(hFile[hIdx[p]])]
    /\ hDev' = [hDev EXCEPT ![p] = hIdx[p]]
    /\ hPc' = [hPc EXCEPT ![p] = "reserved"]
    /\ UNCHANGED <<poolVars, modeVars, cfgVars, topoVars, raceVars, baseVars, notHost,
                   hArgs, hIdx, hFound, hAllBl, hQuiet>>

\* after the for loop: DeviceNameError, DevicesBlacklistedError, or
\* time.sleep(10) and the next round
AfterLoop(p) ==
    /\ hPc[p] = "after_loop"
    /\ hPc' = [hPc EXCEPT ![p] = IF ~hFound[p] THEN "name_error"
                                 ELSE IF hAllBl[p] THEN "blacklisted_error"
                                 ELSE "isfile"]
    /\ hIdx' = [hIdx EXCEPT ![p] = 1]
    /\ hAllBl' = [hAllBl EXCEPT ![p] = TRUE]
    /\ UNCHANGED <<poolVars, modeVars, cfgVars, topoVars, raceVars, baseVars, notHost,
                   hFile, hArgs, hFound, hDev, hQuiet>>

\* main after reserve_device: flashing and testing end well, with a
\* KeyboardInterrupt, with ImageNameError, or with another exception
Execute(p, outcome) ==
    /\ hPc[p] = "reserved"
    /\ hPc' = [hPc EXCEPT ![p] = IF outcome = "error" /\ ~hArgs[p].noblacklisting
                                 THEN "blacklist"
                                 ELSE "release"]
    /\ UNCHANGED <<poolVars, modeVars, cfgVars, topoVars, raceVars, baseVars, notHost,
                   hFile, hArgs, hIdx, hFound, hAllBl, hDev, hQuiet>>

\* release_device: open(lockfile, "w"), write ""
ReleaseDevice(p) ==
    /\ hPc[p] = "release"
    /\ hFile' = [hFile EXCEPT ![hDev[p]] = Truncated]
    /\ hPc' = [hPc EXCEPT ![p] = "finished"]
    /\ UNCHANGED <<poolVars, modeVars, cfgVars, topoVars, raceVars, baseVars, notHost,
                   hArgs, hIdx, hFound, hAllBl, hDev, hQuiet>>

\* except: with blacklisting enabled the text is appended to the lock file
BlacklistLockfile(p) ==
    /\ hPc[p] = "blacklist"
    /\ hFile' = [hFile EXCEPT ![hDev[p]] = BlacklistAppended(hFile[hDev[p]])]
    /\ hPc' = [hPc EXCEPT ![p] = "finished"]
    /\ hQuiet' = IF \A q \in HostProcs \ {p} : HostIdle(q)
                 THEN hQuiet \cup {hDev[p]}
                 ELSE hQuiet
    /\ UNCHANGED <<poolVars, modeVars, cfgVars, topoVars, raceVars, baseVars, notHost,
                   hArgs, hIdx, hFound, hAllBl, hDev>>

NextHost ==
    \E p \in HostProcs :
        \/ StartHost(p)
        \/ CheckIsfile(p)
        \/ OpenLockfile(p)
        \/ ReadLockfile(p)
        \/ WriteLocked(p)
        \/ AfterLoop(p)
        \/ \E outcome \in {"ok", "interrupt", "image_error", "error"} : Execute(p, outcome)
        \/ ReleaseDevice(p)
        \/ BlacklistLockfile(p)

SpecHost == InitHost /\ [][NextHost]_vars


\* C34: two concurrently running callers of reserve_device never both
\* reserve the same device: once one has found the lock file empty and
\* written the lock marker, no other caller returns that device until it is
\* released.
C34_NoDoubleReservation ==
    \A d \in Duts : \A p, q \in HostProcs :
        (HostHolds(p, d) /\ HostHolds(q, d)) => p = q

C36_HarnessExceptionsConsumeAttempts ==
    /\ [](mVariant = "harness" =>
            /\ mPc # "propagated"
            /\ mErrors <= mAttempt
            /\ mAttempt <= HarnessRetryAttempts
            /\ mPc = "device_error" => mAttempt = HarnessRetryAttempts)
    /\ [][(mVariant = "harness" /\ mErrors' # mErrors) =>
            /\ mErrors' = mErrors + 1
            /\ mLogged'
            /\ mPc' = "loop"
            /\ mAttempt' = mAttempt]_vars
    /\ [][mVariant = "harness" => mPc # "interrupted"]_vars
    /\ [][(mVariant = "harness" /\ mPc' = "interrupted") =>
            (mAttempt' = mAttempt /\ mErrors' = mErrors /\ mCycles' = mCycles)]_vars

C36_Witness ==
    /\ mVariant = "harness"
    /\ mPc = "device_error"
    /\ mErrors = HarnessRetryAttempts


\* C37: no device file is open in the PEM probe and in the serial probe at
\* the same time: for the baseline the serial probe starts only after the PEM
\* probe has delivered its result, and in the trials of the cutters the two
\* probes run at the same time only over disjoint sets of ports; the known
\* PEM ports and the known serial ports never share an element.
C37_ProbesNeverShareDeviceFile ==
    /\ OpenFiles("pem") \cap OpenFiles("serial") = {}
    /\ bPemPorts \cap bSerialPorts = {}
    /\ (bTrial = 0 /\ bFinder["serial"] # "none") => (bFinder["pem"] = "none" /\ LogPos("pem_result") # 0)
    /\ (bTrial > 0 /\ bFinder["pem"] # "none" /\ bFinder["serial"] # "none") =>
          bFiles["pem"] \cap bFiles["serial"] = {}

C37_Witness ==
    /\ bTrial > 0
    /\ OpenFiles("pem") # {}
    /\ OpenFiles("serial") # {}

====
